---- MODULE Spec2Model ----
(***************************************************************************)
(* Orion lobby / peer-to-peer mediation server.                            *)
(*                                                                         *)
(* State machine of the session registry (NetworkClientRegistry), the      *)
(* lobby registry (LobbyRegistry, Lobby) and the mediator (PtpMediator),   *)
(* with one action per handler: socket open / close / message, the HTTP    *)
(* request handlers, the datagram handler and every timer callback.        *)
(*                                                                         *)
(* A handler is sequential code that calls into other objects and fires    *)
(* events synchronously; it is modelled as a composition of pure           *)
(* operators over a "world" record w (the objects reachable from the       *)
(* registries plus the frames written so far), and the action assigns the  *)
(* resulting world to the variables.                                       *)
(***************************************************************************)
EXTENDS Integers, Sequences, FiniteSets, TLC

\* ------------------------------------------------------------------ bounds
NumClients == 3     \* sockets that are ever opened
NumIds == 2         \* values generateBase36Id can return
MaxLobbies == 2     \* Lobby objects ever constructed
MaxMeds == 2        \* PtpMediator objects constructed for one Lobby object
MaxLeaked == 1      \* armed peer-connect timers of one mediator whose handle was overwritten
NumPorts == 2       \* datagram source ports
MaxCap == 3         \* largest maxMembers a create request asks for (the smallest is 1)
NumMessages == 2    \* chat message texts
NumLiveClients == 2 \* sessions followed when timers are fair

\* ------------------------------------------------------- program constants
UdpPort == 5990
DefaultErrorStatus == 400

Clients == 1..NumClients
LobbyIds == 1..NumIds
Ports == 1..NumPorts
Hosts == {1}
Names == Clients
LobbyNames == Clients
Capacities == 1..MaxCap
Messages == 1..NumMessages

AbortMembersChanged == "Lobby members changed."
AbortServerConnectTimeout == "Peer-to-peer Mediation timed out waiting for peers to send UDP packets to server."
AbortPtpConnectTimeout == "Peer-to-peer Mediation timed out waiting for peers to connect to one another."

NoMed == <<0, 0>>

VARIABLES
  sockets,                      \* [Clients -> {"new", "open", "closed"}]: WebSocket readyState
  clients,                      \* NetworkClientRegistry.items, as the set of registered clients
  tokenToClientMapping,         \* NetworkClientRegistry.#tokenToClientMapping, as the set of indexed tokens
  lobbies,                      \* every Lobby object constructed so far
  meds,                         \* meds[l]: the PtpMediator objects constructed for Lobby object l
  items,                        \* LobbyRegistry.items: id -> Lobby object (0: absent)
  networkClientToLobbyMapping,  \* LobbyRegistry.#networkClientToLobbyMapping: token -> id (0: absent)
  lobbyIdToPtpMediator,         \* LobbyRegistry.#lobbyIdToPtpMediator: id -> <<lobby object, mediator>>
  running,                      \* LobbyServer: started and not yet stopped
  udpServer                     \* LobbyServer.#udpServer and its processDatagrams loop:
                                \* "listening", "closed" (stopped) or "failed" (left by an exception)

vars == <<sockets, clients, tokenToClientMapping, lobbies, meds, items,
          networkClientToLobbyMapping, lobbyIdToPtpMediator, running, udpServer>>

\* ------------------------------------------------------------ sequences
RECURSIVE SeqFilterIdx(_, _, _)
SeqFilterIdx(s, keep, i) ==
  IF i > Len(s) THEN <<>>
  ELSE (IF s[i] \in keep THEN <<s[i]>> ELSE <<>>) \o SeqFilterIdx(s, keep, i + 1)

Range(s) == {s[i] : i \in 1..Len(s)}

\* ---------------------------------------------------------------- frames
\* One wire frame `method:base64(JSON(payload))` written to socket `to`.
\* lobj is the Lobby object on whose behalf the frame is written (0: none).
Frame(to, method, lobj) ==
  [to |-> to, method |-> method, lobj |-> lobj, lobbyId |-> 0, lobbyName |-> 0,
   peerName |-> 0, reason |-> "", peers |-> <<>>, port |-> 0, token |-> 0,
   message |-> 0, senderName |-> 0]

\* sendToSockets(message, ...sockets): the message is written to each listed
\* socket in order; a socket that is not OPEN is skipped.
SendToSocketsAll(w, f, targets) ==
  [w EXCEPT !.out = @ \o [i \in 1..Len(targets) |-> [f EXCEPT !.to = targets[i]]]]

SendToSockets(w, f, targets) ==
  SendToSocketsAll(w, f, SeqFilterIdx(targets, w.open, 1))

\* ------------------------------------------------------------------ Lobby
MemberTokens(lobby) == [i \in 1..Len(lobby.members) |-> lobby.members[i].c]
MemberSet(lobby) == {lobby.members[i].c : i \in 1..Len(lobby.members)}
MemberNames(lobby) == [i \in 1..Len(lobby.members) |-> lobby.members[i].name]

\* Variant of the Lobby constructor that does not put the host among the members.
NewLobbyWithoutHost(name, hostClient, hostName, maxMembers, isPublic) ==
  [name |-> name, host |-> [c |-> hostClient, name |-> hostName],
   members |-> <<>>,
   maxMembers |-> maxMembers, isPublic |-> isPublic, locked |-> FALSE, id |-> 0]

NewLobby(name, hostClient, hostName, maxMembers, isPublic) ==
  [name |-> name, host |-> [c |-> hostClient, name |-> hostName],
   members |-> <<[c |-> hostClient, name |-> hostName]>>,
   maxMembers |-> maxMembers, isPublic |-> isPublic, locked |-> FALSE, id |-> 0]

NameOfMember(lobby, c) ==
  CHOOSE n \in Names : [c |-> c, name |-> n] \in Range(lobby.members)

\* Variant of numMembers that does not count the host.
numMembersExcludingHost(lobby) == Len(lobby.members) - 1

numMembers(lobby) == Len(lobby.members)
isFull(lobby) == numMembers(lobby) >= lobby.maxMembers
isMember(lobby, c) == c \in MemberSet(lobby)
\* Variant of isHost that is true of every member.
isHostOrMember(lobby, c) == isMember(lobby, c)

isHost(lobby, c) == isMember(lobby, c) /\ c = lobby.host.c

RECURSIVE WithoutToken(_, _)
WithoutToken(members, c) ==
  IF members = <<>> THEN <<>>
  ELSE (IF Head(members).c = c THEN <<>> ELSE <<Head(members)>>) \o WithoutToken(Tail(members), c)

otherMembers(lobby, c) == WithoutToken(lobby.members, c)
OtherTokens(lobby, c) == MemberTokens([members |-> otherMembers(lobby, c)])

\* ------------------------------------------------------------ PtpMediator
NoDetails == [c \in Clients |-> <<>>]

NewMediator ==
  [details |-> NoDetails, acks |-> {}, interval |-> FALSE, connectTimeout |-> FALSE,
   ptpConnectTimeout |-> FALSE, leaked |-> 0, phase |-> "New"]

\* Variant of #uncapturedClients without the filter on captured details.
uncapturedClientsUnfiltered(lobby, m) == MemberTokens(lobby)

uncapturedClients(lobby, m) ==
  SeqFilterIdx(MemberTokens(lobby), {c \in Clients : m.details[c] = <<>>}, 1)

haveAllPeersSharedConnectionDetailsWithServer(lobby, m) ==
  \A c \in MemberSet(lobby) : m.details[c] # <<>>

haveAllPeersConnectedToOneAnother(lobby, m) ==
  \A c \in MemberSet(lobby) : c \in m.acks

\* The onCleanup handler LobbyRegistry subscribes in startPtpMediationForLobby:
\* it deletes the registry's mediator entry under the lobby's id and unlocks
\* the lobby.
OnCleanup(w, l) ==
  [w EXCEPT !.id2med[w.lobbies[l].id] = NoMed,
            !.lobbies[l].locked = FALSE]

cleanup(w, l, k) ==
  OnCleanup([w EXCEPT !.meds[l][k].interval = FALSE,
                      !.meds[l][k].connectTimeout = FALSE,
                      !.meds[l][k].ptpConnectTimeout = FALSE,
                      !.meds[l][k].details = NoDetails,
                      !.meds[l][k].acks = {},
                      !.meds[l][k].phase = "Ended"], l)

\* Variant of the onAbort handler that notifies lobby.otherMembers(lobby.host).
OnAbortSkippingHost(w, l, reason) ==
  SendToSockets(w, [Frame(0, "ptpMediation_aborted", l) EXCEPT !.reason = reason],
                OtherTokens(w.lobbies[l], w.lobbies[l].host.c))

\* The onAbort handler LobbyRegistry subscribes in startPtpMediationForLobby.
OnAbort(w, l, reason) ==
  SendToSockets(w, [Frame(0, "ptpMediation_aborted", l) EXCEPT !.reason = reason],
                MemberTokens(w.lobbies[l]))

\* Variant of #abort that invokes onAbort without cleaning up first.
abortWithoutCleanup(w, l, k, reason) == OnAbort(w, l, reason)

abort(w, l, k, reason) == OnAbort(cleanup(w, l, k), l, reason)

\* Lobby.onMemberAdded / onMemberRemoved: every mediator that was ever started
\* for the lobby subscribed handleLobbyMemberChange and never unsubscribes.
RECURSIVE MemberChangedFrom(_, _, _)
MemberChangedFrom(w, l, k) ==
  IF k > Len(w.meds[l]) THEN w
  ELSE MemberChangedFrom(abort(w, l, k, AbortMembersChanged), l, k + 1)

handleLobbyMemberChange(w, l) == MemberChangedFrom(w, l, 1)

\* ---------------------------------------------------------- LobbyRegistry
\* Variant of #handleItemRemoved that notifies lobby.otherMembers(lobby.host)
\* instead of lobby.members.
handleItemRemovedNotifyingOthers(w, id, l) ==
  LET w1 == [w EXCEPT !.nc2l = [c \in Clients |-> IF @[c] = id THEN 0 ELSE @[c]]]
      med == w1.id2med[id]
      w2 == IF med # NoMed
            THEN [cleanup(w1, med[1], med[2]) EXCEPT !.id2med[id] = NoMed]
            ELSE w1
  IN SendToSockets(w2, [Frame(0, "lobby_closed", l) EXCEPT !.lobbyName = w2.lobbies[l].name,
                                                         !.lobbyId = id],
                   OtherTokens(w2.lobbies[l], w2.lobbies[l].host.c))

\* Variant of #handleItemRemoved that leaves #networkClientToLobbyMapping alone.
handleItemRemovedKeepingIndex(w, id, l) ==
  LET med == w.id2med[id]
      w2 == IF med # NoMed
            THEN [cleanup(w, med[1], med[2]) EXCEPT !.id2med[id] = NoMed]
            ELSE w
  IN SendToSockets(w2, [Frame(0, "lobby_closed", l) EXCEPT !.lobbyName = w2.lobbies[l].name,
                                                         !.lobbyId = id],
                   MemberTokens(w2.lobbies[l]))

handleItemRemoved(w, id, l) ==
  LET w1 == [w EXCEPT !.nc2l = [c \in Clients |-> IF @[c] = id THEN 0 ELSE @[c]]]
      med == w1.id2med[id]
      w2 == IF med # NoMed
            THEN [cleanup(w1, med[1], med[2]) EXCEPT !.id2med[id] = NoMed]
            ELSE w1
  IN SendToSockets(w2, [Frame(0, "lobby_closed", l) EXCEPT !.lobbyName = w2.lobbies[l].name,
                                                         !.lobbyId = id],
                   MemberTokens(w2.lobbies[l]))

removeById(w, id) ==
  IF w.items[id] # 0
  THEN handleItemRemoved([w EXCEPT !.items[id] = 0], id, w.items[id])
  ELSE w

removeMember(w, l, c) ==
  handleLobbyMemberChange([w EXCEPT !.lobbies[l].members = WithoutToken(@, c)], l)

\* Variant of removeMemberFromLobby without the isHost branch: a leaving host
\* is handled like any other member.
removeMemberFromLobbyAsPeer(w, id, c) ==
  LET l == w.items[id] IN
  IF l # 0 /\ isMember(w.lobbies[l], c)
  THEN LET w1 == SendToSockets(w, [Frame(0, "lobby_peerDisconnect", l)
                                     EXCEPT !.peerName = NameOfMember(w.lobbies[l], c),
                                            !.lobbyId = id],
                               OtherTokens(w.lobbies[l], c))
           w2 == removeMember(w1, l, c)
       IN [w2 EXCEPT !.nc2l[c] = 0]
  ELSE w

\* Variant of removeMemberFromLobby that tells only the host of a departure.
removeMemberFromLobbyNotifyingHost(w, id, c) ==
  LET l == w.items[id] IN
  IF l # 0 /\ isMember(w.lobbies[l], c)
  THEN LET w1 == IF isHost(w.lobbies[l], c)
                 THEN removeById(w, id)
                 ELSE SendToSockets(w, [Frame(0, "lobby_peerDisconnect", l)
                                          EXCEPT !.peerName = NameOfMember(w.lobbies[l], c),
                                                 !.lobbyId = id],
                                    <<w.lobbies[l].host.c>>)
           w2 == removeMember(w1, l, c)
       IN [w2 EXCEPT !.nc2l[c] = 0]
  ELSE w

removeMemberFromLobby(w, id, c) ==
  LET l == w.items[id] IN
  IF l # 0 /\ isMember(w.lobbies[l], c)
  THEN LET w1 == IF isHost(w.lobbies[l], c)
                 THEN removeById(w, id)
                 ELSE SendToSockets(w, [Frame(0, "lobby_peerDisconnect", l)
                                          EXCEPT !.peerName = NameOfMember(w.lobbies[l], c),
                                                 !.lobbyId = id],
                                    OtherTokens(w.lobbies[l], c))
           w2 == removeMember(w1, l, c)
       IN [w2 EXCEPT !.nc2l[c] = 0]
  ELSE w

getLobbyFromNetworkClient(w, c) ==
  IF w.nc2l[c] # 0 THEN w.items[w.nc2l[c]] ELSE 0

cleanupNetworkClient(w, c) ==
  LET id == w.nc2l[c] IN
  IF id # 0 /\ w.items[id] # 0 /\ isMember(w.lobbies[w.items[id]], c)
  THEN removeMemberFromLobby(w, id, c)
  ELSE w

getPtpMediatorFromNetworkClient(w, c) ==
  LET id == w.nc2l[c] IN
  IF id # 0 /\ w.items[id] # 0 THEN w.id2med[id] ELSE NoMed

\* Variant of #requestStartPeerConnection that hands the non-host members the
\* list the host gets.
requestStartPeerConnectionSameList(w, l, k) ==
  LET lobby == w.lobbies[l]
      m == w.meds[l][k]
      nonHost == OtherTokens(lobby, lobby.host.c)
      w1 == [w EXCEPT !.meds[l][k].connectTimeout = FALSE]
      w2 == SendToSockets(w1, [Frame(0, "ptpMediation_peersConnection_start", l)
                                 EXCEPT !.peers = [i \in 1..Len(nonHost) |-> m.details[nonHost[i]]]],
                          MemberTokens(lobby))
  IN [w2 EXCEPT !.meds[l][k].leaked = IF m.ptpConnectTimeout THEN @ + 1 ELSE @,
                !.meds[l][k].ptpConnectTimeout = TRUE,
                !.meds[l][k].phase = "Connecting"]

\* PtpMediator.#requestStartPeerConnection.  clearInterval is handed the
\* interval length (#connectRequestIntervalMs), not the handle
\* (#connectPacketInterval), so the reminder interval stays armed; setTimeout
\* overwrites #ptpConnectTimeout, so a handle that was still armed is lost
\* (counted in leaked) and can no longer be cleared.
requestStartPeerConnection(w, l, k) ==
  LET lobby == w.lobbies[l]
      m == w.meds[l][k]
      nonHost == OtherTokens(lobby, lobby.host.c)
      w1 == [w EXCEPT !.meds[l][k].connectTimeout = FALSE]
      w2 == SendToSockets(w1, [Frame(0, "ptpMediation_peersConnection_start", l)
                                 EXCEPT !.peers = [i \in 1..Len(nonHost) |-> m.details[nonHost[i]]]],
                          <<lobby.host.c>>)
      w3 == SendToSockets(w2, [Frame(0, "ptpMediation_peersConnection_start", l)
                                 EXCEPT !.peers = <<m.details[lobby.host.c]>>],
                          nonHost)
  IN [w3 EXCEPT !.meds[l][k].leaked = IF m.ptpConnectTimeout THEN @ + 1 ELSE @,
                !.meds[l][k].ptpConnectTimeout = TRUE,
                !.meds[l][k].phase = "Connecting"]

addDetailsForNetworkClient(w, l, k, c, details) ==
  LET w1 == [w EXCEPT !.meds[l][k].details[c] = details] IN
  IF haveAllPeersSharedConnectionDetailsWithServer(w1.lobbies[l], w1.meds[l][k])
  THEN requestStartPeerConnection(w1, l, k)
  ELSE w1

\* Variant of the onSuccess handler that removes the lobby before it writes
\* ptpMediation_success.
OnSuccessClosingFirst(w, l) ==
  SendToSockets(removeById(w, w.lobbies[l].id), Frame(0, "ptpMediation_success", l),
                MemberTokens(w.lobbies[l]))

\* The onSuccess handler LobbyRegistry subscribes in startPtpMediationForLobby.
OnSuccess(w, l) ==
  removeById(SendToSockets(w, Frame(0, "ptpMediation_success", l), MemberTokens(w.lobbies[l])),
             w.lobbies[l].id)

success(w, l, k) == OnSuccess(cleanup(w, l, k), l)

\* Variant of indicateSuccessfulPeerConnectionForNetworkClient in which a second
\* acknowledgement from a client withdraws its first one.
indicateSuccessfulPeerConnectionToggling(w, l, k, c) ==
  LET w1 == [w EXCEPT !.meds[l][k].acks = IF c \in @ THEN @ \ {c} ELSE @ \cup {c}] IN
  IF haveAllPeersConnectedToOneAnother(w1.lobbies[l], w1.meds[l][k])
  THEN success(w1, l, k)
  ELSE w1

indicateSuccessfulPeerConnectionForNetworkClient(w, l, k, c) ==
  LET w1 == [w EXCEPT !.meds[l][k].acks = @ \cup {c}] IN
  IF haveAllPeersConnectedToOneAnother(w1.lobbies[l], w1.meds[l][k])
  THEN success(w1, l, k)
  ELSE w1

requestConnectPacket(w, l, targets) ==
  SendToSockets(w, [Frame(0, "ptpMediation_send", l) EXCEPT !.port = UdpPort], targets)

\* Variant of start that asks only the non-host members for a datagram.
startWithoutHost(w, l, k) ==
  [requestConnectPacket(w, l, OtherTokens(w.lobbies[l], w.lobbies[l].host.c))
     EXCEPT !.meds[l][k].interval = TRUE,
            !.meds[l][k].connectTimeout = TRUE,
            !.meds[l][k].phase = "Capturing"]

start(w, l, k) ==
  [requestConnectPacket(w, l, MemberTokens(w.lobbies[l]))
     EXCEPT !.meds[l][k].interval = TRUE,
            !.meds[l][k].connectTimeout = TRUE,
            !.meds[l][k].phase = "Capturing"]

isMediatingPtpForLobby(w, id) == w.id2med[id] # NoMed

\* Variant of startPtpMediationForLobby without lobby.lock().
startPtpMediationForLobbyWithoutLock(w, id) ==
  IF w.items[id] # 0 /\ ~isMediatingPtpForLobby(w, id)
  THEN LET l == w.items[id]
           k == Len(w.meds[l]) + 1
       IN start([w EXCEPT !.meds[l] = Append(@, NewMediator),
                          !.id2med[id] = <<l, k>>], l, k)
  ELSE w

startPtpMediationForLobby(w, id) ==
  IF w.items[id] # 0 /\ ~isMediatingPtpForLobby(w, id)
  THEN LET l == w.items[id]
           k == Len(w.meds[l]) + 1
       IN start([w EXCEPT !.meds[l] = Append(@, NewMediator),
                          !.id2med[id] = <<l, k>>,
                          !.lobbies[l].locked = TRUE], l, k)
  ELSE w

handlePtpMediationConnect(w, address, c) ==
  LET med == getPtpMediatorFromNetworkClient(w, c) IN
  IF med # NoMed
  THEN addDetailsForNetworkClient(w, med[1], med[2], c, <<address.hostname, address.port>>)
  ELSE w

handlePtpMediationPeerConnectSuccess(w, c) ==
  LET med == getPtpMediatorFromNetworkClient(w, c) IN
  IF med # NoMed
  THEN indicateSuccessfulPeerConnectionForNetworkClient(w, med[1], med[2], c)
  ELSE w

\* Lobby.addMember: refuses a member that is already in the lobby or a full
\* lobby; a successful add fires onMemberAdded.
CanAddMember(lobby, c) == ~isMember(lobby, c) /\ ~isFull(lobby)

addMember(w, l, c, name) ==
  IF CanAddMember(w.lobbies[l], c)
  THEN handleLobbyMemberChange([w EXCEPT !.lobbies[l].members = Append(@, [c |-> c, name |-> name])], l)
  ELSE w

AddMemberSucceeds(w, id, c) ==
  LET l == w.items[id] IN
  /\ l # 0
  /\ ~isMember(w.lobbies[l], c)
  /\ numMembers(w.lobbies[l]) < w.lobbies[l].maxMembers
  /\ CanAddMember(w.lobbies[l], c)

\* Variant of addMemberToLobby that notifies lobby.members, the joiner included.
addMemberToLobbyNotifyingAll(w, id, c, name) ==
  IF AddMemberSucceeds(w, id, c)
  THEN LET l == w.items[id]
           w1 == addMember(w, l, c, name)
           w2 == [w1 EXCEPT !.nc2l[c] = id]
       IN SendToSockets(w2, [Frame(0, "lobby_peerConnect", l) EXCEPT !.peerName = name,
                                                                   !.lobbyId = id],
                        MemberTokens(w2.lobbies[l]))
  ELSE w

addMemberToLobby(w, id, c, name) ==
  IF AddMemberSucceeds(w, id, c)
  THEN LET l == w.items[id]
           w1 == addMember(w, l, c, name)
           w2 == [w1 EXCEPT !.nc2l[c] = id]
       IN SendToSockets(w2, [Frame(0, "lobby_peerConnect", l) EXCEPT !.peerName = name,
                                                                   !.lobbyId = id],
                        OtherTokens(w2.lobbies[l], c))
  ELSE w

\* Variant of register in which #handleItemRegistered does not index the host.
registerWithoutIndex(w, lobby, id) ==
  LET l == Len(w.lobbies) + 1 IN
  [w EXCEPT !.lobbies = Append(@, [lobby EXCEPT !.id = id]),
            !.meds = Append(@, <<>>),
            !.items[id] = l]

\* Registry.register followed by LobbyRegistry.#handleItemRegistered.  The id
\* is what LobbyRegistry.getNextId returned.
register(w, lobby, id) ==
  LET l == Len(w.lobbies) + 1 IN
  [w EXCEPT !.lobbies = Append(@, [lobby EXCEPT !.id = id]),
            !.meds = Append(@, <<>>),
            !.items[id] = l,
            !.nc2l[lobby.host.c] = id]

\* LobbyRegistry.getNextId: a random 5-character base-36 string, not checked
\* against the ids in use.  Ids are named in order of first appearance, so
\* the id of the n-th lobby created is one of the first n names.
getNextId(w) == {id \in LobbyIds : id <= Len(w.lobbies) + 1}

\* Variant of isNetworkClientInLobby that is true of hosts only.
isNetworkClientHostingLobby(w, c) ==
  \E id \in LobbyIds : w.items[id] # 0 /\ w.lobbies[w.items[id]].host.c = c

isNetworkClientInLobby(w, c) == w.nc2l[c] # 0

\* ------------------------------------------------------------- the world
World ==
  [open |-> {c \in Clients : sockets[c] = "open"},
   lobbies |-> lobbies, meds |-> meds, items |-> items,
   nc2l |-> networkClientToLobbyMapping, id2med |-> lobbyIdToPtpMediator,
   out |-> <<>>]

\* The bounds of the exploration.  A behaviour that constructs more than one
\* Lobby object is followed with one mediator per lobby and no overwritten
\* timer handle; a behaviour with a single Lobby object is followed up to
\* MaxMeds mediators and MaxLeaked overwritten handles per mediator.
WithinBounds(w) ==
  /\ Len(w.lobbies) <= MaxLobbies
  /\ \A l \in 1..Len(w.meds) :
       /\ Len(w.meds[l]) <= (IF Len(w.lobbies) > 1 THEN 1 ELSE MaxMeds)
       /\ \A k \in 1..Len(w.meds[l]) :
            w.meds[l][k].leaked <= (IF Len(w.lobbies) > 1 THEN 0 ELSE MaxLeaked)

\* A Lobby object is reachable while the registry holds it, while the registry
\* holds one of its mediators, or while a timer of one of its mediators is
\* armed (the callback closes over the mediator, which holds the lobby).  An
\* unreachable Lobby and its mediators are garbage: nothing can read or
\* change them again, and they are replaced by a tombstone.
Armed(m) == m.interval \/ m.connectTimeout \/ m.ptpConnectTimeout \/ m.leaked > 0

Reachable(w, l) ==
  \/ \E id \in LobbyIds : w.items[id] = l \/ w.id2med[id][1] = l
  \/ \E k \in 1..Len(w.meds[l]) : Armed(w.meds[l][k])

Tombstone ==
  [name |-> 0, host |-> [c |-> 0, name |-> 0], members |-> <<>>,
   maxMembers |-> 0, isPublic |-> FALSE, locked |-> FALSE, id |-> 0]

Collect(w) ==
  [w EXCEPT !.lobbies = [l \in 1..Len(w.lobbies) |->
                           IF Reachable(w, l) THEN w.lobbies[l] ELSE Tombstone],
            !.meds = [l \in 1..Len(w.meds) |->
                        IF Reachable(w, l) THEN w.meds[l] ELSE <<>>]]

\* The handler's result w becomes the next state; the frames it wrote (w.out)
\* have left the server.
Commit(w) ==
  /\ WithinBounds(w)
  /\ \E v \in {Collect(w)} :
       /\ lobbies' = v.lobbies
       /\ meds' = v.meds
       /\ items' = v.items
       /\ networkClientToLobbyMapping' = v.nc2l
       /\ lobbyIdToPtpMediator' = v.id2med

getByToken(t) == IF t \in tokenToClientMapping /\ t \in clients THEN t ELSE 0

\* ------------------------------------------------------------------ Init
Init ==
  /\ sockets = [c \in Clients |-> "new"]
  /\ clients = {}
  /\ tokenToClientMapping = {}
  /\ lobbies = <<>>
  /\ meds = <<>>
  /\ items = [id \in LobbyIds |-> 0]
  /\ networkClientToLobbyMapping = [c \in Clients |-> 0]
  /\ lobbyIdToPtpMediator = [id \in LobbyIds |-> NoMed]
  /\ running = TRUE
  /\ udpServer = "listening"

\* Variant of the 'open' listener that writes client_registered to every open
\* socket.
onOpenBroadcasting(w, c) ==
  SendToSockets([w EXCEPT !.open = @ \cup {c}],
                [Frame(0, "client_registered", 0) EXCEPT !.token = c],
                SeqFilterIdx([i \in 1..NumClients |-> i], w.open \cup {c}, 1))

\* --------------------------------------------------------------- sessions
\* The socket's 'open' listener: the client is registered under a fresh token
\* and client_registered is written to its socket.  Tokens are random UUIDs,
\* named here in the order the sessions open.
onOpen(w, c) ==
  SendToSockets([w EXCEPT !.open = @ \cup {c}],
                [Frame(0, "client_registered", 0) EXCEPT !.token = c], <<c>>)

OpenSession(c) ==
  /\ running
  /\ sockets[c] = "new"
  /\ \A b \in Clients : b < c => sockets[b] # "new"
  /\ sockets' = [sockets EXCEPT ![c] = "open"]
  /\ clients' = clients \cup {c}
  /\ tokenToClientMapping' = tokenToClientMapping \cup {c}
  /\ UNCHANGED <<running, udpServer>>
  /\ Commit(onOpen(World, c))

\* Variant of the 'close' listener that runs while the socket still counts as
\* open.
onCloseWhileOpen(w, c) == cleanupNetworkClient(w, c)

\* The socket's 'close' listener: the client leaves the session registry, then
\* LobbyRegistry.cleanupNetworkClient runs.
onClose(w, c) == cleanupNetworkClient([w EXCEPT !.open = @ \ {c}], c)

\* Variant of the 'close' listener without networkClientRegistry.removeById.
CloseSessionKeepingToken(c) ==
  /\ running
  /\ sockets[c] = "open"
  /\ sockets' = [sockets EXCEPT ![c] = "closed"]
  /\ UNCHANGED <<clients, tokenToClientMapping, running, udpServer>>
  /\ Commit(onClose(World, c))

CloseSession(c) ==
  /\ running
  /\ sockets[c] = "open"
  /\ sockets' = [sockets EXCEPT ![c] = "closed"]
  /\ clients' = clients \ {c}
  /\ tokenToClientMapping' = tokenToClientMapping \ {c}
  /\ UNCHANGED <<running, udpServer>>
  /\ Commit(onClose(World, c))

\* ------------------------------------------------------------------- HTTP
\* Each handler answers with a status; only a 2xx run changes the registries.
\* POST /lobbies
createLobbyStatus(w, t) ==
  IF getByToken(t) = 0 THEN DefaultErrorStatus
  ELSE IF isNetworkClientInLobby(w, t) THEN 409
  ELSE 201

createLobby(w, t, hostName, lobbyName, isPublic, maxMembers, id) ==
  register(w, NewLobby(lobbyName, t, hostName, maxMembers, isPublic), id)

CreateLobby(t, hostName, lobbyName, isPublic, maxMembers) ==
  /\ running
  /\ UNCHANGED <<sockets, clients, tokenToClientMapping, running, udpServer>>
  /\ IF createLobbyStatus(World, t) = 201
     THEN \E id \in getNextId(World) :
            Commit(createLobby(World, t, hostName, lobbyName, isPublic, maxMembers, id))
     ELSE Commit(World)

\* POST /lobbies/:lobbyId/join
\* Variant of the name check of joinLobby that compares with the host's name only.
isNameTakenByHost(lobby, peerName) == peerName = lobby.host.name

\* lobby.members.some((member) => member.name === peerName)
isNameTaken(lobby, peerName) == peerName \in Range(MemberNames(lobby))

JoinRejected(w, t, id, peerName) ==
  \/ isNetworkClientInLobby(w, t)
  \/ w.items[id] = 0
  \/ isFull(w.lobbies[w.items[id]])
  \/ w.lobbies[w.items[id]].locked
  \/ isNameTaken(w.lobbies[w.items[id]], peerName)
  \/ ~AddMemberSucceeds(w, id, t)

joinLobbyStatus(w, t, id, peerName) ==
  IF getByToken(t) = 0 THEN DefaultErrorStatus
  ELSE IF JoinRejected(w, t, id, peerName) THEN 409
  ELSE 200

\* The registries after the request: only an accepted join reaches
\* LobbyRegistry.addMemberToLobby.
joinLobby(w, t, id, peerName) ==
  IF joinLobbyStatus(w, t, id, peerName) = 200
  THEN addMemberToLobby(w, id, t, peerName)
  ELSE w

\* The body of the 200 response, read from the lobby after the join.
joinLobbyResponse(w, id) ==
  [lobbyId |-> id,
   lobbyName |-> w.lobbies[w.items[id]].name,
   lobbyMembers |-> MemberNames(w.lobbies[w.items[id]]),
   host |-> w.lobbies[w.items[id]].host.name]

JoinLobby(t, id, peerName) ==
  /\ running
  /\ UNCHANGED <<sockets, clients, tokenToClientMapping, running, udpServer>>
  /\ Commit(joinLobby(World, t, id, peerName))

\* POST /lobbies/:lobbyId/ptp/start
StartRejected(w, t, id) ==
  \/ w.items[id] = 0
  \/ ~isHost(w.lobbies[w.items[id]], t)
  \/ w.lobbies[w.items[id]].locked
  \/ isMediatingPtpForLobby(w, id)
  \/ numMembers(w.lobbies[w.items[id]]) < 2

startPtpMediationStatus(w, t, id) ==
  IF getByToken(t) = 0 THEN DefaultErrorStatus
  ELSE IF StartRejected(w, t, id) THEN 409
  ELSE 200

\* The registries after the request: only an accepted start reaches
\* LobbyRegistry.startPtpMediationForLobby.
startPtpMediation(w, t, id) ==
  IF startPtpMediationStatus(w, t, id) = 200
  THEN startPtpMediationForLobby(w, id)
  ELSE w

StartPtpMediation(t, id) ==
  /\ running
  /\ UNCHANGED <<sockets, clients, tokenToClientMapping, running, udpServer>>
  /\ Commit(startPtpMediation(World, t, id))

\* ------------------------------------------------------- datagram, stream
\* UdpHandler.handle for a well-formed ptpMediation_connect datagram carrying
\* token t and received from source address (hostname, port).
onDatagram(w, t, hostname, port) ==
  IF getByToken(t) # 0
  THEN handlePtpMediationConnect(w, [hostname |-> hostname, port |-> port], t)
  ELSE w

Datagram(t, hostname, port) ==
  /\ running /\ udpServer = "listening"
  /\ UNCHANGED <<sockets, clients, tokenToClientMapping, running, udpServer>>
  /\ Commit(onDatagram(World, t, hostname, port))

\* The text of a received datagram: the method before the first ':' and what
\* follows it, which is the base-64 of a JSON object carrying a token
\* ("object", token 0: the object has no string token), is empty ("none"), or
\* is not the base-64 of any JSON text ("malformed").
Packets ==
  [method : {"ptpMediation_connect", "unknown"},
   payload : [kind : {"object"}, token : Clients \cup {0}]
             \cup [kind : {"none", "malformed"}, token : {0}]]

\* decodePacket: the method and the parsed payload; parsing a payload that is
\* not base-64 of JSON throws.
decodePacket(p) ==
  [threw |-> p.payload.kind = "malformed", method |-> p.method, payload |-> p.payload]

ClientDatagramMethod == {"ptpMediation_connect"}

\* clientDatagramPayloadSchemaMap[ptpMediation_connect].safeParse(payload).success
safeParse(payload) == payload.kind = "object" /\ payload.token # 0

\* UdpHandler.handle for a datagram whose text decodePacket returns from.
handle(w, p, hostname, port) ==
  LET d == decodePacket(p) IN
  IF d.method \in ClientDatagramMethod
  THEN IF safeParse(d.payload)
       THEN onDatagram(w, d.payload.token, hostname, port)
       ELSE w
  ELSE w

\* The datagrams that are not a ptpMediation_connect with a string token.
BadPackets == {p \in Packets : ~(p.method \in ClientDatagramMethod /\ safeParse(p.payload))}

\* One turn of the processDatagrams loop for a datagram that decodes and is
\* then rejected by its method or by the payload schema.
DroppedDatagram(p, hostname, port) ==
  /\ running /\ udpServer = "listening"
  /\ ~decodePacket(p).threw
  /\ UNCHANGED <<sockets, clients, tokenToClientMapping, running, udpServer>>
  /\ Commit(handle(World, p, hostname, port))

\* One turn of the processDatagrams loop for a datagram on which decodePacket
\* throws.  handle does not catch, nor does the for-await loop around it: the
\* exception leaves the loop and rejects the promise of processDatagrams(),
\* which nothing awaits or catches, and the runtime ends the process on the
\* unhandled rejection.  Every socket the process held is closed and its
\* registries and timers are gone.
UndecodableDatagram(p) ==
  /\ running /\ udpServer = "listening"
  /\ decodePacket(p).threw
  /\ udpServer' = "failed"
  /\ running' = FALSE
  /\ sockets' = [c \in Clients |-> IF sockets[c] = "open" THEN "closed" ELSE sockets[c]]
  /\ clients' = {}
  /\ tokenToClientMapping' = {}
  /\ lobbies' = <<>>
  /\ meds' = <<>>
  /\ items' = [id \in LobbyIds |-> 0]
  /\ networkClientToLobbyMapping' = [c \in Clients |-> 0]
  /\ lobbyIdToPtpMediator' = [id \in LobbyIds |-> NoMed]

\* The 'message' listener for a well-formed
\* ptpMediation_peersConnection_success frame carrying token t.
handleConnectedToPeers(w, t) ==
  LET l == getLobbyFromNetworkClient(w, t) IN
  IF getByToken(t) # 0 /\ l # 0 /\ w.lobbies[l].locked
  THEN handlePtpMediationPeerConnectSuccess(w, t)
  ELSE w

ConnectedToPeers(t) ==
  /\ running
  /\ UNCHANGED <<sockets, clients, tokenToClientMapping, running, udpServer>>
  /\ Commit(handleConnectedToPeers(World, t))

\* Variant of handleLobbyMessage that does not echo the message to its sender.
handleLobbyMessageToOthers(w, t, id, message) ==
  LET l == w.items[id]
      own == getLobbyFromNetworkClient(w, t)
  IN IF /\ getByToken(t) # 0
        /\ l # 0
        /\ own # 0 /\ isMember(w.lobbies[own], t)
        /\ isMember(w.lobbies[l], t)
     THEN SendToSockets(w, [Frame(0, "lobby_messaging_received", l)
                              EXCEPT !.lobbyId = id,
                                     !.message = message,
                                     !.senderName = NameOfMember(w.lobbies[own], t)],
                        OtherTokens(w.lobbies[l], t))
     ELSE w

\* The 'message' listener for a well-formed lobby_messaging_send frame
\* carrying token t, lobby id and message text.  The sender's LobbyClient is
\* looked up in the lobby the token index resolves for t; the frame goes to
\* the members of the lobby registered under the id the payload names.  The
\* payload's timestamp (Date.now()) is not represented.
handleLobbyMessage(w, t, id, message) ==
  LET l == w.items[id]
      own == getLobbyFromNetworkClient(w, t)
  IN IF /\ getByToken(t) # 0
        /\ l # 0
        /\ own # 0 /\ isMember(w.lobbies[own], t)
        /\ isMember(w.lobbies[l], t)
     THEN SendToSockets(w, [Frame(0, "lobby_messaging_received", l)
                              EXCEPT !.lobbyId = id,
                                     !.message = message,
                                     !.senderName = NameOfMember(w.lobbies[own], t)],
                        MemberTokens(w.lobbies[l]))
     ELSE w

LobbyMessage(t, id, message) ==
  /\ running
  /\ UNCHANGED <<sockets, clients, tokenToClientMapping, running, udpServer>>
  /\ Commit(handleLobbyMessage(World, t, id, message))

\* Variant of getAllPublicLobbies without the isPublic filter.
getAllLobbies(w) ==
  {[name |-> w.lobbies[w.items[id]].name,
    id |-> id,
    currentMembers |-> numMembers(w.lobbies[w.items[id]]),
    maxMembers |-> w.lobbies[w.items[id]].maxMembers] :
     id \in {i \in LobbyIds : w.items[i] # 0}}

\* GET /lobbies: LobbiesService.getAllPublicLobbies, the body's `lobbies`.
getAllPublicLobbies(w) ==
  {[name |-> w.lobbies[w.items[id]].name,
    id |-> id,
    currentMembers |-> numMembers(w.lobbies[w.items[id]]),
    maxMembers |-> w.lobbies[w.items[id]].maxMembers] :
     id \in {i \in LobbyIds : w.items[i] # 0 /\ w.lobbies[w.items[i]].isPublic}}

\* --------------------------------------------------------------- shutdown
\* LobbyRegistry.cleanup: mediator.cleanup() for the mediators that
\* #lobbyIdToPtpMediator held when the call began, then the three maps are
\* emptied.
RECURSIVE CleanupMediatorsFrom(_, _, _)
CleanupMediatorsFrom(w, registered, id) ==
  IF id > NumIds THEN w
  ELSE CleanupMediatorsFrom(IF registered[id] # NoMed
                            THEN cleanup(w, registered[id][1], registered[id][2])
                            ELSE w,
                            registered, id + 1)

cleanupLobbyRegistry(w) ==
  [CleanupMediatorsFrom(w, w.id2med, 1)
     EXCEPT !.id2med = [id \in LobbyIds |-> NoMed],
            !.nc2l = [c \in Clients |-> 0],
            !.items = [id \in LobbyIds |-> 0]]

\* NetworkClientRegistry.cleanup closes the socket of every registered client.
cleanupNetworkClientRegistry(w) == [w EXCEPT !.open = {}]

\* LobbyServer.#stopHttpServer: the two registries are cleaned up in turn.
stop(w) == cleanupNetworkClientRegistry(cleanupLobbyRegistry(w))

Shutdown ==
  /\ running
  /\ running' = FALSE
  /\ udpServer' = "closed"
  /\ sockets' = [c \in Clients |-> IF sockets[c] = "open" THEN "closed" ELSE sockets[c]]
  /\ clients' = {}
  /\ tokenToClientMapping' = {}
  /\ Commit(stop(World))

\* ----------------------------------------------------------------- timers
\* The setInterval callback of PtpMediator.start.
onInterval(w, l, k) ==
  requestConnectPacket(w, l, uncapturedClients(w.lobbies[l], w.meds[l][k]))

ReminderTick(l, k) ==
  /\ meds[l][k].interval
  /\ UNCHANGED <<sockets, clients, tokenToClientMapping, running, udpServer>>
  /\ Commit(onInterval(World, l, k))

\* Variant of the capture deadline's callback that returns without aborting.
onConnectTimeoutIdle(w, l, k) == [w EXCEPT !.meds[l][k].connectTimeout = FALSE]

\* The setTimeout callback of PtpMediator.start (#connectTimeout).
onConnectTimeout(w, l, k) ==
  abort([w EXCEPT !.meds[l][k].connectTimeout = FALSE], l, k, AbortServerConnectTimeout)

ConnectTimeoutFires(l, k) ==
  /\ meds[l][k].connectTimeout
  /\ UNCHANGED <<sockets, clients, tokenToClientMapping, running, udpServer>>
  /\ Commit(onConnectTimeout(World, l, k))

\* Every peer-connect timer of a lobby's mediators runs for the same
\* ptpConnectTimeoutMs, so they fire in the order they were armed: those of
\* an earlier mediator before those of a later one, and a mediator's
\* overwritten handles before the one it holds.
OldestPtpConnectTimer(l, k, own) ==
  /\ \A j \in 1..(k - 1) : ~meds[l][j].ptpConnectTimeout /\ meds[l][j].leaked = 0
  /\ own = 0 => meds[l][k].leaked = 0

\* The setTimeout callback of #requestStartPeerConnection whose handle is the
\* one held in #ptpConnectTimeout.
onPtpConnectTimeout(w, l, k) ==
  abort([w EXCEPT !.meds[l][k].ptpConnectTimeout = FALSE], l, k, AbortPtpConnectTimeout)

PtpConnectTimeoutFires(l, k) ==
  /\ meds[l][k].ptpConnectTimeout
  /\ OldestPtpConnectTimer(l, k, 0)
  /\ UNCHANGED <<sockets, clients, tokenToClientMapping, running, udpServer>>
  /\ Commit(onPtpConnectTimeout(World, l, k))

\* The same callback, armed by an earlier #requestStartPeerConnection whose
\* handle was overwritten.
onLeakedPtpConnectTimeout(w, l, k) ==
  abort([w EXCEPT !.meds[l][k].leaked = @ - 1], l, k, AbortPtpConnectTimeout)

LeakedPtpConnectTimeoutFires(l, k) ==
  /\ meds[l][k].leaked > 0
  /\ OldestPtpConnectTimer(l, k, 1)
  /\ UNCHANGED <<sockets, clients, tokenToClientMapping, running, udpServer>>
  /\ Commit(onLeakedPtpConnectTimeout(World, l, k))

\* ------------------------------------------------------------------- Next
\* Display names are only compared and copied, so they are named in order of
\* first appearance: a request asks for a name some member has, or for the
\* first name no member has.
UsedNames == UNION {Range(MemberNames(lobbies[l])) : l \in 1..Len(lobbies)}

RequestedNames ==
  UsedNames \cup {n \in Names : n \notin UsedNames /\ \A x \in Names \ UsedNames : n <= x}

\* isPublic is read by the listing only, so a private lobby is followed at the
\* largest capacity and a public one at every capacity.
CreateRequests ==
  {req \in Capacities \X BOOLEAN : req[2] \/ req[1] = MaxCap}

MedRefs == {lk \in (1..MaxLobbies) \X (1..MaxMeds) :
              lk[1] <= Len(meds) /\ lk[2] <= Len(meds[lk[1]])}

Next ==
  \/ \E c \in Clients : OpenSession(c)
  \/ \E c \in Clients : CloseSession(c)
  \/ \E t \in Clients, hostName \in RequestedNames, req \in CreateRequests :
       CreateLobby(t, hostName, t, req[2], req[1])
  \/ \E t \in Clients, id \in LobbyIds, peerName \in RequestedNames : JoinLobby(t, id, peerName)
  \/ \E t \in Clients, id \in LobbyIds : StartPtpMediation(t, id)
  \/ \E t \in Clients, hostname \in Hosts, port \in Ports : Datagram(t, hostname, port)
  \/ \E p \in BadPackets, hostname \in Hosts : DroppedDatagram(p, hostname, 1)
  \/ \E p \in BadPackets : UndecodableDatagram(p)
  \/ \E t \in Clients : ConnectedToPeers(t)
  \/ \E t \in Clients, id \in LobbyIds, message \in Messages : LobbyMessage(t, id, message)
  \/ Shutdown
  \/ \E lk \in MedRefs : ReminderTick(lk[1], lk[2])
  \/ \E lk \in MedRefs : ConnectTimeoutFires(lk[1], lk[2])
  \/ \E lk \in MedRefs : PtpConnectTimeoutFires(lk[1], lk[2])
  \/ \E lk \in MedRefs : LeakedPtpConnectTimeoutFires(lk[1], lk[2])

Spec == Init /\ [][Next]_vars

\* The timers of the runtime: a deadline that stays armed fires.  Nothing
\* obliges a client to open a session, post a request or send a datagram or a
\* frame.
TimersFire ==
  /\ WF_vars(\E lk \in MedRefs : ConnectTimeoutFires(lk[1], lk[2]))
  /\ WF_vars(\E lk \in MedRefs : PtpConnectTimeoutFires(lk[1], lk[2]))
  /\ WF_vars(\E lk \in MedRefs : LeakedPtpConnectTimeoutFires(lk[1], lk[2]))

\* The events of two sessions: every request, datagram and acknowledgement
\* they can send, their closing, every timer, and the server's stopping.
LiveClients == 1..NumLiveClients

LiveNext ==
  \/ \E c \in LiveClients : OpenSession(c)
  \/ \E c \in LiveClients : CloseSession(c)
  \/ \E t \in LiveClients, hostName \in RequestedNames : CreateLobby(t, hostName, t, TRUE, MaxCap)
  \/ \E t \in LiveClients, id \in LobbyIds, peerName \in RequestedNames : JoinLobby(t, id, peerName)
  \/ \E t \in LiveClients, id \in LobbyIds : StartPtpMediation(t, id)
  \/ \E t \in LiveClients, hostname \in Hosts, port \in Ports : Datagram(t, hostname, port)
  \/ \E t \in LiveClients : ConnectedToPeers(t)
  \/ \E p \in BadPackets : UndecodableDatagram(p)
  \/ Shutdown
  \/ \E lk \in MedRefs : ReminderTick(lk[1], lk[2])
  \/ \E lk \in MedRefs : ConnectTimeoutFires(lk[1], lk[2])
  \/ \E lk \in MedRefs : PtpConnectTimeoutFires(lk[1], lk[2])
  \/ \E lk \in MedRefs : LeakedPtpConnectTimeoutFires(lk[1], lk[2])

LiveSpec == Init /\ [][LiveNext]_vars /\ TimersFire

TypeOK ==
  /\ sockets \in [Clients -> {"new", "open", "closed"}]
  /\ clients \subseteq Clients
  /\ Len(lobbies) <= MaxLobbies
  /\ items \in [LobbyIds -> 0..MaxLobbies]
  /\ running \in BOOLEAN
  /\ udpServer \in {"listening", "closed", "failed"}

\* ------------------------------------------------------------ observations
\* What a handler run shows: the frames it wrote, per receiving socket.
Open == {c \in Clients : sockets[c] = "open"}

FramesTo(out, c) == SelectSeq(out, LAMBDA f : f.to = c)

MethodsTo(out, c) == [i \in 1..Len(FramesTo(out, c)) |-> FramesTo(out, c)[i].method]

NumFrames(out, c, method) ==
  Cardinality({i \in 1..Len(out) : out[i].to = c /\ out[i].method = method})

\* The lobby the registry resolves for client c (0: none) and its id.
LobbyIdOf(c) == networkClientToLobbyMapping[c]
LobbyOf(c) == getLobbyFromNetworkClient(World, c)

\* Client c is a member of a registered lobby whose mediation is running.
InMediation(c) ==
  /\ LobbyOf(c) # 0
  /\ isMember(lobbies[LobbyOf(c)], c)
  /\ lobbyIdToPtpMediator[LobbyIdOf(c)] # NoMed
  /\ lobbyIdToPtpMediator[LobbyIdOf(c)][1] = LobbyOf(c)

MediatorOf(c) == meds[LobbyOf(c)][lobbyIdToPtpMediator[LobbyIdOf(c)][2]]

\* ------------------------------------------------------------------- C1
\* C1: closing the host's session removes its lobby from the lobby registry;
\* closing a non-host member's session leaves the lobby registered with
\* exactly that member removed; closing a session that is in no lobby leaves
\* the lobby registry unchanged.
C1_CloseUpdatesLobbyRegistry ==
  \A c \in Open :
    LET w == onClose(World, c) IN
    /\ \A id \in LobbyIds :
         items[id] # 0 =>
           IF isHost(lobbies[items[id]], c)
           THEN w.items[id] = 0
           ELSE /\ w.items[id] = items[id]
                /\ w.lobbies[items[id]].members = WithoutToken(lobbies[items[id]].members, c)
    /\ LobbyIdOf(c) = 0 =>
         /\ w.items = items
         /\ w.lobbies = lobbies
         /\ w.nc2l = networkClientToLobbyMapping
         /\ w.id2med = lobbyIdToPtpMediator

\* A lobby with a connected host and a connected non-host member, and a
\* connected session that is in no lobby: closing the host unregisters the
\* lobby, closing the member shortens the member list.
C1_Witness ==
  \E h \in Open, c \in Open, o \in Open :
    /\ LobbyOf(h) # 0 /\ LobbyOf(c) = LobbyOf(h) /\ LobbyIdOf(o) = 0
    /\ isHost(lobbies[LobbyOf(h)], h)
    /\ isMember(lobbies[LobbyOf(h)], c) /\ c # h
    /\ onClose(World, h).items[LobbyIdOf(h)] = 0
    /\ Len(onClose(World, c).lobbies[LobbyOf(h)].members) = 1

\* ------------------------------------------------------------------- C2
\* Every result a handler can produce from the current state.
HandlerResults ==
  {onClose(World, c) : c \in Open}
    \cup {onOpen(World, c) : c \in {x \in Clients : sockets[x] = "new"}}
    \cup {IF createLobbyStatus(World, t) = 201
          THEN createLobby(World, t, hostName, t, TRUE, maxMembers, id) ELSE World :
            t \in Clients, hostName \in Names, maxMembers \in Capacities, id \in getNextId(World)}
    \cup {handleConnectedToPeers(World, t) : t \in Clients}
    \cup {onDatagram(World, t, hostname, port) : t \in Clients, hostname \in Hosts, port \in Ports}
    \cup {IF startPtpMediationStatus(World, t, id) = 200
          THEN startPtpMediationForLobby(World, id) ELSE World : t \in Clients, id \in LobbyIds}
    \cup {IF joinLobbyStatus(World, t, id, peerName) = 200
          THEN addMemberToLobby(World, id, t, peerName) ELSE World :
            t \in Clients, id \in LobbyIds, peerName \in Names}
    \cup UNION {{onInterval(World, lk[1], lk[2]) : lk \in {x \in MedRefs : meds[x[1]][x[2]].interval}},
                {onConnectTimeout(World, lk[1], lk[2]) : lk \in {x \in MedRefs : meds[x[1]][x[2]].connectTimeout}},
                {onPtpConnectTimeout(World, lk[1], lk[2]) : lk \in {x \in MedRefs : meds[x[1]][x[2]].ptpConnectTimeout}},
                {onLeakedPtpConnectTimeout(World, lk[1], lk[2]) : lk \in {x \in MedRefs : meds[x[1]][x[2]].leaked > 0}}}

\* Client c is owed a lobby_closed frame for id by the run that produced w: the
\* run unregistered the lobby held under id, c was one of its members and c
\* is still connected.
OwedClosed(w, c, id) ==
  /\ items[id] # 0 /\ w.items[id] = 0
  /\ isMember(lobbies[items[id]], c)
  /\ c \in w.open

\* C2: each time a lobby is destroyed, exactly one lobby_closed frame carrying
\* the lobby's id and name is delivered to each member still connected, and
\* no lobby_closed frame is delivered to anyone else.
C2_OneClosedFramePerMember ==
  \A w \in HandlerResults : \A c \in Clients, id \in LobbyIds, name \in LobbyNames :
    Cardinality({i \in 1..Len(w.out) :
                   /\ w.out[i].to = c /\ w.out[i].method = "lobby_closed"
                   /\ w.out[i].lobbyId = id /\ w.out[i].lobbyName = name})
      = IF OwedClosed(w, c, id) /\ name = lobbies[items[id]].name THEN 1 ELSE 0

\* A run (a host's close, or the last acknowledgement of a mediation) that
\* destroys a lobby of three members, two of them still connected after it.
C2_Witness ==
  \E w \in HandlerResults : \E id \in LobbyIds :
    /\ items[id] # 0 /\ w.items[id] = 0
    /\ Cardinality({c \in Clients : OwedClosed(w, c, id)}) >= 2
    /\ \E c \in Clients : c \notin MemberSet(lobbies[items[id]]) /\ c \in w.open

\* ------------------------------------------------------------------- C3
\* C3: when the host's session closes while its lobby's mediator is live, the
\* mediator is torn down silently: the run writes no ptpMediation_aborted
\* frame, and lobby_closed is the last frame it writes to each remaining member.
C3_SilentTeardownOnHostClose ==
  \A h \in Open :
    (InMediation(h) /\ isHost(lobbies[LobbyOf(h)], h)) =>
      LET w == onClose(World, h) IN
      \A c \in Clients :
        /\ NumFrames(w.out, c, "ptpMediation_aborted") = 0
        /\ (isMember(lobbies[LobbyOf(h)], c) /\ c \in w.open) =>
             /\ MethodsTo(w.out, c) # <<>>
             /\ MethodsTo(w.out, c)[Len(MethodsTo(w.out, c))] = "lobby_closed"

\* ------------------------------------------------------------------- C4
\* C4: when a non-host member's session closes while the lobby's mediator is
\* live, every remaining member is sent ptpMediation_aborted with the reason
\* "Lobby members changed." (and no other abort reason is sent), the mediator
\* is ended and removed from the registry, the lobby stays registered and is
\* unlocked, and the host's next start request is accepted if two or more
\* members remain.
C4_MemberCloseAbortsMediation ==
  \A c \in Open :
    (InMediation(c) /\ ~isHost(lobbies[LobbyOf(c)], c)) =>
      LET l == LobbyOf(c)
          id == LobbyIdOf(c)
          k == lobbyIdToPtpMediator[id][2]
          w == onClose(World, c)
      IN /\ \A d \in MemberSet(w.lobbies[l]) :
              d \in w.open => NumFrames(w.out, d, "ptpMediation_aborted") >= 1
         /\ \A i \in 1..Len(w.out) :
              w.out[i].method = "ptpMediation_aborted" =>
                /\ w.out[i].reason = AbortMembersChanged
                /\ w.out[i].to \in MemberSet(w.lobbies[l])
         /\ w.id2med[id] = NoMed
         /\ w.meds[l][k].phase = "Ended"
         /\ ~w.meds[l][k].interval /\ ~w.meds[l][k].connectTimeout /\ ~w.meds[l][k].ptpConnectTimeout
         /\ w.items[id] = l
         /\ ~w.lobbies[l].locked
         /\ numMembers(w.lobbies[l]) >= 2 =>
              startPtpMediationStatus(w, w.lobbies[l].host.c, id) = 200

\* A non-host member of a three-member lobby whose mediation is running is
\* about to close: two members remain, both are sent the abort, and the host
\* can start again.
C4_Witness ==
  \E c \in Open :
    /\ InMediation(c) /\ ~isHost(lobbies[LobbyOf(c)], c)
    /\ numMembers(lobbies[LobbyOf(c)]) = 3
    /\ MediatorOf(c).phase = "Connecting"
    /\ LET w == onClose(World, c) IN
       /\ Cardinality({d \in Clients : NumFrames(w.out, d, "ptpMediation_aborted") >= 1}) = 2
       /\ startPtpMediationStatus(w, lobbies[LobbyOf(c)].host.c, LobbyIdOf(c)) = 200

\* ------------------------------------------------------------------- C5
\* C5: when the acknowledgement of the last member of a mediating lobby
\* arrives, every member is sent ptpMediation_success and then lobby_closed
\* (and nothing else), and neither the lobby nor its mediator is registered
\* any more.
C5_AllAcknowledgedSucceeds ==
  \A t \in Open :
    (/\ InMediation(t)
     /\ lobbies[LobbyOf(t)].locked
     /\ MemberSet(lobbies[LobbyOf(t)]) \subseteq MediatorOf(t).acks \cup {t}) =>
      LET l == LobbyOf(t)
          id == LobbyIdOf(t)
          k == lobbyIdToPtpMediator[id][2]
          w == handleConnectedToPeers(World, t)
      IN /\ \A c \in MemberSet(lobbies[l]) :
              c \in w.open =>
                MethodsTo(w.out, c) = <<"ptpMediation_success", "lobby_closed">>
         /\ \A i \in 1..Len(w.out) : w.out[i].to \in MemberSet(lobbies[l])
         /\ w.items[id] = 0
         /\ w.id2med[id] = NoMed
         /\ w.meds[l][k].phase = "Ended"

\* The last of three acknowledgements is about to arrive, and the run it
\* triggers writes six frames and unregisters the lobby.
C5_Witness ==
  \E t \in Open :
    /\ InMediation(t) /\ lobbies[LobbyOf(t)].locked
    /\ numMembers(lobbies[LobbyOf(t)]) = 3
    /\ t \notin MediatorOf(t).acks
    /\ MemberSet(lobbies[LobbyOf(t)]) \subseteq MediatorOf(t).acks \cup {t}
    /\ Len(handleConnectedToPeers(World, t).out) = 6
    /\ handleConnectedToPeers(World, t).items[LobbyIdOf(t)] = 0

\* ------------------------------------------------------------------- C6
\* C6: the datagram that completes the capture makes the mediator write one
\* ptpMediation_peersConnection_start to the host, whose peers list is the
\* recorded (ip, port) of every non-host member, and one to each non-host
\* member, whose peers list is the host's recorded (ip, port); and whenever
\* the mediator records a datagram, what it records for the sender is the
\* datagram's source address.
C6_PeersListsAtAllCaptured ==
  \A t \in Open, hostname \in Hosts, port \in Ports :
    InMediation(t) =>
      LET l == LobbyOf(t)
          k == lobbyIdToPtpMediator[LobbyIdOf(t)][2]
          lobby == lobbies[l]
          host == lobby.host.c
          nonHost == OtherTokens(lobby, host)
          rec == [c \in Clients |-> IF c = t THEN <<hostname, port>> ELSE MediatorOf(t).details[c]]
          w == onDatagram(World, t, hostname, port)
      IN /\ w.meds[l][k].details = rec
         /\ (/\ MediatorOf(t).details[t] = <<>>
             /\ \A c \in MemberSet(lobby) \ {t} : MediatorOf(t).details[c] # <<>>) =>
              /\ w.meds[l][k].phase = "Connecting"
              /\ \A c \in Clients :
                   FramesTo(w.out, c) =
                     IF c \notin w.open \/ ~isMember(lobby, c) THEN <<>>
                     ELSE <<[Frame(c, "ptpMediation_peersConnection_start", l) EXCEPT
                               !.peers = IF c = host
                                         THEN [i \in 1..Len(nonHost) |-> rec[nonHost[i]]]
                                         ELSE <<rec[host]>>]>>

\* The third member's datagram is about to complete the capture of a lobby
\* whose two non-host members were observed at different ports.
C6_Witness ==
  \E t \in Open, port \in Ports :
    /\ InMediation(t) /\ numMembers(lobbies[LobbyOf(t)]) = 3
    /\ MediatorOf(t).details[t] = <<>>
    /\ \A c \in MemberSet(lobbies[LobbyOf(t)]) \ {t} : MediatorOf(t).details[c] # <<>>
    /\ \E c \in MemberSet(lobbies[LobbyOf(t)]) \ {t} : MediatorOf(t).details[c] # <<1, port>>
    /\ Len(onDatagram(World, t, 1, port).out) = 3

\* ------------------------------------------------------------------- C7
\* A mediator is live from start() until its cleanup().
LiveMediators(w, l) ==
  {k \in 1..Len(w.meds[l]) : w.meds[l][k].phase \in {"Capturing", "Connecting"}}

StartResult(t, id) ==
  IF startPtpMediationStatus(World, t, id) = 200
  THEN startPtpMediationForLobby(World, id)
  ELSE World

\* C7: no lobby ever has more than one live mediator, before or after a start
\* request; and a start request for a lobby whose mediation is running is
\* answered 409 and changes nothing.
C7_AtMostOneMediatorPerLobby ==
  /\ \A l \in 1..Len(lobbies) : Cardinality(LiveMediators(World, l)) <= 1
  /\ \A t \in Open, id \in LobbyIds :
       /\ \A l \in 1..Len(lobbies) : Cardinality(LiveMediators(StartResult(t, id), l)) <= 1
       /\ (items[id] # 0 /\ LiveMediators(World, items[id]) # {}) =>
            /\ startPtpMediationStatus(World, t, id) = 409
            /\ StartResult(t, id) = World

\* ------------------------------------------------------------------- C8
\* C8: a ptpMediation_connect datagram from a member whose observation is
\* already recorded replaces the recorded observation by the datagram's
\* source address and does nothing else: no frame is written and the
\* mediator's phase and timers stay as they were.
C8_ResentConnectOnlyUpdatesObservation ==
  \A t \in Open, hostname \in Hosts, port \in Ports :
    (InMediation(t) /\ MediatorOf(t).details[t] # <<>>) =>
      LET l == LobbyOf(t)
          k == lobbyIdToPtpMediator[LobbyIdOf(t)][2]
          w == onDatagram(World, t, hostname, port)
      IN /\ w.out = <<>>
         /\ w.meds[l][k] = [MediatorOf(t) EXCEPT !.details[t] = <<hostname, port>>]

\* ------------------------------------------------------------------- C9
\* C9: an accepted start request locks the lobby, registers a new mediator for
\* it that is in Capturing with the reminder interval and the capture
\* deadline armed, and writes exactly one ptpMediation_send frame carrying the
\* server's UDP port to every member of the lobby, the host included, and
\* nothing to anyone else.
C9_StartLocksAndRequestsDatagrams ==
  \A t \in Clients, id \in LobbyIds :
    startPtpMediationStatus(World, t, id) = 200 =>
      LET l == items[id]
          k == Len(meds[l]) + 1
          w == startPtpMediationForLobby(World, id)
      IN /\ w.lobbies[l].locked
         /\ w.id2med[id] = <<l, k>>
         /\ Len(w.meds[l]) = k
         /\ w.meds[l][k] = [NewMediator EXCEPT !.phase = "Capturing", !.interval = TRUE,
                                               !.connectTimeout = TRUE]
         /\ \A c \in Clients :
              FramesTo(w.out, c) =
                IF isMember(lobbies[l], c)
                THEN <<[Frame(c, "ptpMediation_send", l) EXCEPT !.port = UdpPort]>>
                ELSE <<>>

\* The host of an unlocked lobby of three members can start the mediation,
\* and the start writes three frames.
C9_Witness ==
  \E t \in Open, id \in LobbyIds :
    /\ startPtpMediationStatus(World, t, id) = 200
    /\ numMembers(lobbies[items[id]]) = 3
    /\ Len(startPtpMediationForLobby(World, id).out) = 3
    /\ startPtpMediationForLobby(World, id).lobbies[items[id]].locked

\* ------------------------------------------------------------------ C10
\* C10: a reminder tick writes one ptpMediation_send frame to each member
\* whose datagram has not been observed and nothing to anyone else (so nothing
\* at all once every member is captured), and changes no state.
C10_ReminderOnlyToUncaptured ==
  \A lk \in MedRefs :
    meds[lk[1]][lk[2]].interval =>
      LET l == lk[1]
          m == meds[lk[1]][lk[2]]
          w == onInterval(World, lk[1], lk[2])
      IN /\ \A c \in Clients :
              FramesTo(w.out, c) =
                IF isMember(lobbies[l], c) /\ m.details[c] = <<>> /\ c \in Open
                THEN <<[Frame(c, "ptpMediation_send", l) EXCEPT !.port = UdpPort]>>
                ELSE <<>>
         /\ [w EXCEPT !.out = <<>>] = World

\* A tick is due for a lobby of three connected members of which exactly one
\* is captured: the tick writes two frames.
C10_Witness ==
  \E lk \in MedRefs :
    /\ meds[lk[1]][lk[2]].interval
    /\ numMembers(lobbies[lk[1]]) = 3
    /\ MemberSet(lobbies[lk[1]]) \subseteq Open
    /\ Cardinality({c \in MemberSet(lobbies[lk[1]]) : meds[lk[1]][lk[2]].details[c] # <<>>}) = 1
    /\ Len(onInterval(World, lk[1], lk[2]).out) = 2

\* ------------------------------------------------------------------ C11
\* Mediator k of Lobby object l is the one the registry holds for a
\* registered lobby.
RegisteredMediator(l, k) ==
  /\ lobbies[l].id # 0
  /\ items[lobbies[l].id] = l
  /\ lobbyIdToPtpMediator[lobbies[l].id] = <<l, k>>

\* What a deadline's run w must show: one ptpMediation_aborted with the
\* deadline's reason to every member and nothing else, the mediator ended and
\* out of the registry, the lobby registered, unlocked and with its members.
AbortedBy(w, l, k, reason) ==
  /\ \A c \in Clients :
       FramesTo(w.out, c) =
         IF isMember(lobbies[l], c) /\ c \in Open
         THEN <<[Frame(c, "ptpMediation_aborted", l) EXCEPT !.reason = reason]>>
         ELSE <<>>
  /\ w.id2med[lobbies[l].id] = NoMed
  /\ w.meds[l][k].phase = "Ended"
  /\ ~w.meds[l][k].interval /\ ~w.meds[l][k].connectTimeout /\ ~w.meds[l][k].ptpConnectTimeout
  /\ w.items = items
  /\ w.lobbies[l] = [lobbies[l] EXCEPT !.locked = FALSE]

\* C11: when the capture deadline of a lobby's mediator fires while a member
\* is unobserved, or its peer-connect deadline fires while a member has not
\* acknowledged, every member is sent one ptpMediation_aborted naming that
\* timeout, the mediator is removed, and the lobby stays registered, unlocked.
C11_DeadlineAbortsMediation ==
  \A lk \in MedRefs :
    RegisteredMediator(lk[1], lk[2]) =>
      LET l == lk[1]
          k == lk[2]
          m == meds[lk[1]][lk[2]]
      IN /\ (m.connectTimeout /\ \E c \in MemberSet(lobbies[l]) : m.details[c] = <<>>) =>
              AbortedBy(onConnectTimeout(World, l, k), l, k, AbortServerConnectTimeout)
         /\ (m.ptpConnectTimeout /\ \E c \in MemberSet(lobbies[l]) : c \notin m.acks) =>
              AbortedBy(onPtpConnectTimeout(World, l, k), l, k, AbortPtpConnectTimeout)

\* The peer-connect deadline is armed for a lobby of three members of which
\* one has acknowledged; its run writes three frames.
C11_Witness ==
  \E lk \in MedRefs :
    /\ RegisteredMediator(lk[1], lk[2])
    /\ meds[lk[1]][lk[2]].ptpConnectTimeout
    /\ numMembers(lobbies[lk[1]]) = 3
    /\ Cardinality(meds[lk[1]][lk[2]].acks) = 1
    /\ Len(onPtpConnectTimeout(World, lk[1], lk[2]).out) = 3

\* ------------------------------------------------------------------ C12
\* C12: while a lobby is locked (its mediation is running), every join request
\* for it is answered 409, whatever the lobby's free capacity and the name
\* asked for, and changes nothing: no member, no index entry, no frame, and
\* the mediator stays as it was.
C12_LockedLobbyRefusesJoin ==
  \A t \in Open, id \in LobbyIds, peerName \in Names :
    (items[id] # 0 /\ (lobbies[items[id]].locked \/ isMediatingPtpForLobby(World, id))) =>
      /\ joinLobbyStatus(World, t, id, peerName) = 409
      /\ joinLobby(World, t, id, peerName) = World

\* A session in no lobby asks to join, under a free name, a lobby of capacity
\* three that has two members and whose mediation is running.
C12_Witness ==
  \E t \in Open, id \in LobbyIds, peerName \in Names :
    /\ items[id] # 0 /\ lobbies[items[id]].locked
    /\ RegisteredMediator(items[id], lobbyIdToPtpMediator[id][2])
    /\ ~isNetworkClientInLobby(World, t)
    /\ ~isFull(lobbies[items[id]])
    /\ ~isNameTaken(lobbies[items[id]], peerName)
    /\ joinLobbyStatus(World, t, id, peerName) = 409

\* ------------------------------------------------------------------ C13
\* C13: a start request for a registered lobby from a session that is not its
\* host (a plain member, an outsider, the host of another lobby), or for a
\* lobby with fewer than two members, is answered 409 and changes nothing: no
\* mediator, no lock, no frame.
C13_StartRefusedForNonHostOrLoneHost ==
  \A t \in Open, id \in LobbyIds :
    (/\ items[id] # 0
     /\ \/ t # lobbies[items[id]].host.c
        \/ Len(lobbies[items[id]].members) < 2) =>
      /\ startPtpMediationStatus(World, t, id) = 409
      /\ startPtpMediation(World, t, id) = World

\* The host of one lobby asks to start the mediation of another lobby that
\* has two members, while a plain member of that lobby could ask too; and a
\* host that is alone in its lobby asks for its own.
C13_Witness ==
  \E t \in Open, u \in Open, id \in LobbyIds, other \in LobbyIds :
    /\ id # other /\ items[id] # 0 /\ items[other] # 0
    /\ ~lobbies[items[id]].locked /\ Len(lobbies[items[id]].members) = 2
    /\ lobbies[items[other]].host.c = t /\ Len(lobbies[items[other]].members) = 1
    /\ isMember(lobbies[items[id]], u) /\ u # lobbies[items[id]].host.c
    /\ startPtpMediationStatus(World, t, id) = 409
    /\ startPtpMediationStatus(World, u, id) = 409
    /\ startPtpMediationStatus(World, t, other) = 409

\* ------------------------------------------------------------------ C14
\* C14: in every reachable state the host of every registered lobby is one of
\* its members, and the lobby has at most maxMembers members.
C14_HostIsMemberWithinCapacity ==
  \A id \in LobbyIds :
    items[id] # 0 =>
      /\ \E i \in 1..Len(lobbies[items[id]].members) :
           lobbies[items[id]].members[i] = lobbies[items[id]].host
      /\ Len(lobbies[items[id]].members) <= lobbies[items[id]].maxMembers

\* A lobby filled to its capacity of three in which a later session joined
\* before an earlier one (a member left and the place was taken again).
C14_Witness ==
  \E id \in LobbyIds :
    /\ items[id] # 0
    /\ lobbies[items[id]].maxMembers = 3
    /\ Len(lobbies[items[id]].members) = 3
    /\ lobbies[items[id]].members[2].c > lobbies[items[id]].members[3].c

\* ------------------------------------------------------------------ C15
\* C15: in every reachable state the display names of the members of a
\* registered lobby are pairwise distinct; and a join that asks for a name a
\* member of the lobby has is answered 409 and changes nothing.
C15_MemberNamesDistinct ==
  /\ \A id \in LobbyIds :
       items[id] # 0 =>
         \A i, j \in 1..Len(lobbies[items[id]].members) :
           i # j => lobbies[items[id]].members[i].name # lobbies[items[id]].members[j].name
  /\ \A t \in Open, id \in LobbyIds, peerName \in Names :
       (/\ items[id] # 0
        /\ \E i \in 1..Len(lobbies[items[id]].members) :
             lobbies[items[id]].members[i].name = peerName) =>
         /\ joinLobbyStatus(World, t, id, peerName) = 409
         /\ joinLobby(World, t, id, peerName) = World

\* A session in no lobby asks to join an unlocked lobby that has room, under
\* the name of the lobby's non-host member, which is not the session's token.
C15_Witness ==
  \E t \in Open, id \in LobbyIds :
    /\ items[id] # 0 /\ ~lobbies[items[id]].locked /\ ~isFull(lobbies[items[id]])
    /\ ~isNetworkClientInLobby(World, t)
    /\ Len(lobbies[items[id]].members) = 2
    /\ lobbies[items[id]].members[2].name # lobbies[items[id]].members[2].c
    /\ joinLobbyStatus(World, t, id, lobbies[items[id]].members[2].name) = 409

\* ------------------------------------------------------------------ C16
\* C16: in every reachable state the registry's index maps the token of every
\* member of every registered lobby to that lobby's id, so that the lobby and
\* the lobby client looked up from the member's session are that lobby and
\* that member.
C16_IndexMapsMembersToTheirLobby ==
  \A id \in LobbyIds :
    items[id] # 0 =>
      \A i \in 1..Len(lobbies[items[id]].members) :
        LET member == lobbies[items[id]].members[i] IN
        /\ networkClientToLobbyMapping[member.c] = id
        /\ getLobbyFromNetworkClient(World, member.c) = items[id]
        /\ NameOfMember(lobbies[getLobbyFromNetworkClient(World, member.c)], member.c) = member.name

\* Two registered lobbies, one of them with two members.
C16_Witness ==
  \E id \in LobbyIds, other \in LobbyIds :
    /\ id # other /\ items[id] # 0 /\ items[other] # 0
    /\ Len(lobbies[items[id]].members) = 2
    /\ networkClientToLobbyMapping[lobbies[items[id]].members[2].c] = id
    /\ networkClientToLobbyMapping[lobbies[items[other]].host.c] = other

\* ------------------------------------------------------------------ C17
\* C17: no session is a member of two registered lobbies; and a create or join
\* request from a session that is the host or a member of a registered lobby
\* is answered 409 and changes nothing: no lobby, no member, no frame.
C17_OneLobbyPerSession ==
  /\ \A c \in Clients :
       Cardinality({id \in LobbyIds : items[id] # 0 /\ c \in MemberSet(lobbies[items[id]])}) <= 1
  /\ \A t \in Open :
       (\E id \in LobbyIds : items[id] # 0 /\ t \in MemberSet(lobbies[items[id]])) =>
         /\ createLobbyStatus(World, t) = 409
         /\ \A id \in LobbyIds, peerName \in Names :
              /\ joinLobbyStatus(World, t, id, peerName) = 409
              /\ joinLobby(World, t, id, peerName) = World

\* A plain member of one lobby asks to create a lobby and to join another
\* lobby, which is unlocked, has room and does not use the name.
C17_Witness ==
  \E t \in Open, id \in LobbyIds, other \in LobbyIds, peerName \in Names :
    /\ id # other /\ items[id] # 0 /\ items[other] # 0
    /\ t \in MemberSet(lobbies[items[id]]) /\ t # lobbies[items[id]].host.c
    /\ ~isFull(lobbies[items[other]]) /\ ~lobbies[items[other]].locked
    /\ \A i \in 1..Len(lobbies[items[other]].members) :
         lobbies[items[other]].members[i].name # peerName
    /\ createLobbyStatus(World, t) = 409
    /\ joinLobbyStatus(World, t, other, peerName) = 409

\* ------------------------------------------------------------------ C18
\* The frames of one method that a run wrote to socket c, in order.
FramesOf(out, c, method) == SelectSeq(out, LAMBDA f : f.to = c /\ f.method = method)

\* C18: when the session of a non-host member of a registered lobby closes,
\* every remaining member, the host included, is sent exactly one
\* lobby_peerDisconnect carrying the departed member's display name and the
\* lobby's id, and nobody else is sent one.
C18_OnePeerDisconnectPerRemainingMember ==
  \A c \in Open :
    (/\ LobbyOf(c) # 0
     /\ isMember(lobbies[LobbyOf(c)], c)
     /\ c # lobbies[LobbyOf(c)].host.c) =>
      LET l == LobbyOf(c)
          w == onClose(World, c)
      IN \A d \in Clients :
           FramesOf(w.out, d, "lobby_peerDisconnect") =
             IF d # c /\ \E i \in 1..Len(lobbies[l].members) : lobbies[l].members[i].c = d
             THEN <<[Frame(d, "lobby_peerDisconnect", l)
                       EXCEPT !.peerName = NameOfMember(lobbies[l], c),
                              !.lobbyId = LobbyIdOf(c)]>>
             ELSE <<>>

\* A non-host member of a lobby of three is about to close; its display name
\* is not its token, and the close writes two lobby_peerDisconnect frames.
C18_Witness ==
  \E c \in Open :
    /\ LobbyOf(c) # 0 /\ isMember(lobbies[LobbyOf(c)], c)
    /\ c # lobbies[LobbyOf(c)].host.c
    /\ Len(lobbies[LobbyOf(c)].members) = 3
    /\ NameOfMember(lobbies[LobbyOf(c)], c) # c
    /\ Cardinality({d \in Clients : FramesOf(onClose(World, c).out, d, "lobby_peerDisconnect") # <<>>}) = 2

\* ------------------------------------------------------------------ C19
\* C19: an accepted join appends the joiner to the lobby's members and
\* indexes it, sends exactly one lobby_peerConnect carrying the joiner's name
\* and the lobby's id to every member the lobby had before and none to the
\* joiner or anyone else, and its response lists the members' names in join
\* order, the joiner last.
C19_JoinNotifiesEarlierMembers ==
  \A t \in Open, id \in LobbyIds, peerName \in Names :
    joinLobbyStatus(World, t, id, peerName) = 200 =>
      LET l == items[id]
          w == joinLobby(World, t, id, peerName)
      IN /\ w.lobbies[l].members = Append(lobbies[l].members, [c |-> t, name |-> peerName])
         /\ w.nc2l = [networkClientToLobbyMapping EXCEPT ![t] = id]
         /\ w.items = items
         /\ joinLobbyResponse(w, id) =
              [lobbyId |-> id, lobbyName |-> lobbies[l].name,
               lobbyMembers |-> [i \in 1..(Len(lobbies[l].members) + 1) |->
                                   IF i <= Len(lobbies[l].members)
                                   THEN lobbies[l].members[i].name ELSE peerName],
               host |-> lobbies[l].host.name]
         /\ \A d \in Clients :
              FramesOf(w.out, d, "lobby_peerConnect") =
                IF \E i \in 1..Len(lobbies[l].members) : lobbies[l].members[i].c = d
                THEN <<[Frame(d, "lobby_peerConnect", l) EXCEPT !.peerName = peerName,
                                                                !.lobbyId = id]>>
                ELSE <<>>

\* A session is about to join, under a name that is not its token, a lobby
\* that has two members: the join writes two lobby_peerConnect frames.
C19_Witness ==
  \E t \in Open, id \in LobbyIds, peerName \in Names :
    /\ joinLobbyStatus(World, t, id, peerName) = 200
    /\ peerName # t
    /\ Len(lobbies[items[id]].members) = 2
    /\ Cardinality({d \in Clients :
                      FramesOf(joinLobby(World, t, id, peerName).out, d, "lobby_peerConnect") # <<>>}) = 2
    /\ Len(joinLobbyResponse(joinLobby(World, t, id, peerName), id).lobbyMembers) = 3

\* ------------------------------------------------------------------ C20
\* C20: a join request for a registered lobby that has as many members as its
\* maxMembers is answered 409 and changes nothing: no member, no index entry,
\* no frame.
C20_FullLobbyRefusesJoin ==
  \A t \in Open, id \in LobbyIds, peerName \in Names :
    (items[id] # 0 /\ Len(lobbies[items[id]].members) = lobbies[items[id]].maxMembers) =>
      /\ joinLobbyStatus(World, t, id, peerName) = 409
      /\ joinLobby(World, t, id, peerName) = World

\* A session in no lobby asks to join, under a free name, an unlocked lobby
\* of capacity two that has two members.
C20_Witness ==
  \E t \in Open, id \in LobbyIds, peerName \in Names :
    /\ items[id] # 0 /\ ~lobbies[items[id]].locked
    /\ lobbies[items[id]].maxMembers = 2 /\ Len(lobbies[items[id]].members) = 2
    /\ ~isNetworkClientInLobby(World, t)
    /\ \A i \in 1..2 : lobbies[items[id]].members[i].name # peerName
    /\ joinLobbyStatus(World, t, id, peerName) = 409

\* ------------------------------------------------------------------- C21
\* C21: a ptpMediation_peersConnection_success frame from a member whose
\* acknowledgement the running mediation already holds changes nothing: the
\* acknowledged set, the phase and the timers of every mediator, the lobbies
\* and the registry are as before, and no frame is written.
C21_DuplicateAckIsNoOp ==
  \A t \in Open :
    (InMediation(t) /\ t \in MediatorOf(t).acks) =>
      handleConnectedToPeers(World, t) = World

\* A member of a locked lobby of three has acknowledged, another member has
\* not, and the first sends its acknowledgement again.
C21_Witness ==
  \E t \in Open :
    /\ InMediation(t) /\ t \in MediatorOf(t).acks
    /\ getByToken(t) # 0 /\ lobbies[LobbyOf(t)].locked
    /\ MediatorOf(t).phase = "Connecting"
    /\ numMembers(lobbies[LobbyOf(t)]) = 3
    /\ \E o \in MemberSet(lobbies[LobbyOf(t)]) : o \notin MediatorOf(t).acks
    /\ handlePtpMediationPeerConnectSuccess(World, t) = handleConnectedToPeers(World, t)

\* ------------------------------------------------------------------- C22
\* Every result a handler can produce from the current state, the chat
\* handler and the shutdown included.
EveryHandlerResult ==
  HandlerResults
    \cup {handleLobbyMessage(World, t, id, message) :
            t \in Clients, id \in LobbyIds, message \in Messages}
    \cup {stop(World)}

\* C22: a socket that has not opened yet receives no frame from any handler
\* other than its own 'open' listener; that listener writes exactly one
\* frame, client_registered, to that socket alone, carrying the token under
\* which the session registry resolves the session while it is open.
C22_FirstFrameIsClientRegistered ==
  /\ \A c \in Clients :
       sockets[c] = "new" =>
         /\ onOpen(World, c).out = <<[Frame(c, "client_registered", 0) EXCEPT !.token = c]>>
         /\ \A w \in EveryHandlerResult \ {onOpen(World, c)} : FramesTo(w.out, c) = <<>>
  /\ \A c \in Open : getByToken(c) = c

\* A socket is about to open while another session is connected and some
\* handler run writes frames to several sockets.
C22_Witness ==
  \E c \in Clients, o \in Open :
    /\ sockets[c] = "new" /\ running
    /\ getByToken(o) = o
    /\ Len(onOpen(World, c).out) = 1
    /\ \E w \in EveryHandlerResult : Len(w.out) > 1

\* ------------------------------------------------------------------- C23
\* C23: once a session's socket has closed, its token resolves to no session;
\* every create, join and start request carrying it is answered with the
\* error status and leaves the registries as they are, and every stream frame
\* and datagram carrying it is dropped without effect.  A closed socket never
\* opens again and tokens are never reissued, so this holds from the close on.
C23_ClosedTokenIsInvalid ==
  \A t \in Clients :
    sockets[t] = "closed" =>
      /\ getByToken(t) = 0
      /\ createLobbyStatus(World, t) = DefaultErrorStatus
      /\ \A id \in LobbyIds :
           /\ \A peerName \in Names :
                /\ joinLobbyStatus(World, t, id, peerName) = DefaultErrorStatus
                /\ joinLobby(World, t, id, peerName) = World
           /\ startPtpMediationStatus(World, t, id) = DefaultErrorStatus
           /\ startPtpMediation(World, t, id) = World
           /\ \A message \in Messages : handleLobbyMessage(World, t, id, message) = World
      /\ handleConnectedToPeers(World, t) = World
      /\ \A hostname \in Hosts, port \in Ports : onDatagram(World, t, hostname, port) = World

\* The server is running, a session has closed, and a lobby is registered that
\* a join carrying the closed session's token would enter if the token were
\* still valid.
C23_Witness ==
  \E t \in Clients, id \in LobbyIds, peerName \in Names :
    /\ running /\ sockets[t] = "closed"
    /\ items[id] # 0
    /\ ~JoinRejected(World, t, id, peerName)
    /\ joinLobbyStatus(World, t, id, peerName) = DefaultErrorStatus

\* ------------------------------------------------------------------- C24
\* C24: a lobby_messaging_send frame carrying the token of a connected
\* session changes no registry state.  If the session is a member of the
\* lobby registered under the id the frame names, every member of that lobby,
\* the sender included, is sent exactly one lobby_messaging_received frame
\* with that id, the message and the sender's display name in that lobby, and
\* nobody else is sent anything; otherwise no frame is written at all.
C24_ChatReachesExactlyTheLobby ==
  \A t \in Open, id \in LobbyIds, message \in Messages :
    LET w == handleLobbyMessage(World, t, id, message)
        l == items[id]
    IN /\ w = [World EXCEPT !.out = w.out]
       /\ IF l # 0 /\ (\E i \in 1..Len(lobbies[l].members) : lobbies[l].members[i].c = t)
          THEN \A c \in Clients :
                 FramesTo(w.out, c) =
                   IF \E i \in 1..Len(lobbies[l].members) : lobbies[l].members[i].c = c
                   THEN <<[Frame(c, "lobby_messaging_received", l)
                             EXCEPT !.lobbyId = id,
                                    !.message = message,
                                    !.senderName = NameOfMember(lobbies[l], t)]>>
                   ELSE <<>>
          ELSE w.out = <<>>

\* Two lobbies are registered; a non-host member of a lobby of two sends to
\* its own lobby (two frames) and to the other lobby (none), and the host of
\* the other lobby sends to the first one (none).
C24_Witness ==
  \E t \in Open, o \in Open, id \in LobbyIds, other \in LobbyIds, message \in Messages :
    /\ running /\ id # other /\ items[id] # 0 /\ items[other] # 0
    /\ LobbyIdOf(t) = id /\ numMembers(lobbies[items[id]]) = 2
    /\ lobbies[items[id]].host.c # t
    /\ LobbyIdOf(o) = other /\ lobbies[items[other]].host.c = o
    /\ Len(handleLobbyMessage(World, t, id, message).out) = 2
    /\ handleLobbyMessage(World, t, other, message).out = <<>>
    /\ handleLobbyMessage(World, o, id, message).out = <<>>

\* ------------------------------------------------------------------- C25
\* C25: when a handler run removes a lobby from the registry, every client
\* that was a member of it (the host included) has no entry in the
\* token-to-lobby index afterwards and resolves to no lobby; each of them
\* that is still connected is then answered 201 to a create request and 200
\* to a join request for any registered lobby that is not full, not locked
\* and has the requested name free.
C25_DestroyedLobbyFreesMembers ==
  \A w \in HandlerResults : \A id \in LobbyIds :
    (items[id] # 0 /\ w.items[id] = 0) =>
      \A c \in MemberSet(lobbies[items[id]]) :
        /\ w.nc2l[c] = 0
        /\ getLobbyFromNetworkClient(w, c) = 0
        /\ c \in w.open =>
             /\ createLobbyStatus(w, c) = 201
             /\ \A to \in LobbyIds, peerName \in Names :
                  ( /\ w.items[to] # 0
                    /\ Len(w.lobbies[w.items[to]].members) < w.lobbies[w.items[to]].maxMembers
                    /\ ~w.lobbies[w.items[to]].locked
                    /\ ~isNameTaken(w.lobbies[w.items[to]], peerName) )
                  => joinLobbyStatus(w, c, to, peerName) = 200

\* The host of a lobby of two closes its socket while a second lobby with a
\* free place is registered: the lobby is removed and its other member can
\* create a lobby or join the second one.
C25_Witness ==
  \E h \in Open, m \in Open, id \in LobbyIds, to \in LobbyIds, peerName \in Names :
    /\ running /\ id # to /\ items[id] # 0 /\ items[to] # 0 /\ h # m
    /\ lobbies[items[id]].host.c = h /\ m \in MemberSet(lobbies[items[id]])
    /\ LobbyIdOf(m) = id
    /\ onClose(World, h).items[id] = 0
    /\ onClose(World, h).nc2l[m] = 0
    /\ createLobbyStatus(onClose(World, h), m) = 201
    /\ joinLobbyStatus(onClose(World, h), m, to, peerName) = 200

\* ------------------------------------------------------------------- C26
\* C26: stopping the server leaves no timer of any mediator armed, empties
\* the lobby registry, the token-to-lobby index and the mediator map, closes
\* every open socket, and writes no lobby_closed, lobby_peerDisconnect or
\* ptpMediation_aborted frame.
C26_ShutdownTearsDownSilently ==
  running =>
    LET w == stop(World) IN
    /\ \A l \in 1..Len(w.meds) : \A k \in 1..Len(w.meds[l]) : ~Armed(w.meds[l][k])
    /\ w.items = [id \in LobbyIds |-> 0]
    /\ w.nc2l = [c \in Clients |-> 0]
    /\ w.id2med = [id \in LobbyIds |-> NoMed]
    /\ w.open = {}
    /\ \A i \in 1..Len(w.out) :
         w.out[i].method \notin {"lobby_closed", "lobby_peerDisconnect", "ptpMediation_aborted"}

\* ------------------------------------------------------------------- C27
\* C27: a create request that is answered 201 registers the new lobby under
\* an id that no registered lobby holds, so every lobby that was registered
\* before the request is registered under the same id afterwards.
C27_CreateAssignsUnusedId ==
  \A t \in Clients, hostName \in Names, req \in CreateRequests, id \in getNextId(World) :
    createLobbyStatus(World, t) = 201 =>
      /\ items[id] = 0
      /\ \A other \in LobbyIds :
           items[other] # 0 =>
             createLobby(World, t, hostName, t, req[2], req[1], id).items[other] = items[other]

C29_ListIsThePublicLiveLobbies ==
  /\ getAllPublicLobbies(World) =
       {[name |-> lobbies[items[id]].name, id |-> id,
         currentMembers |-> Len(lobbies[items[id]].members),
         maxMembers |-> lobbies[items[id]].maxMembers] :
          id \in {i \in LobbyIds : items[i] # 0 /\ lobbies[items[i]].isPublic}}
  /\ \A t \in Clients, hostName \in Names, maxMembers \in Capacities,
        isPublic \in BOOLEAN, id \in getNextId(World) :
       createLobbyStatus(World, t) = 201 =>
         LET w == createLobby(World, t, hostName, t, isPublic, maxMembers, id) IN
         {e \in getAllPublicLobbies(w) : e.id = id} =
           IF isPublic
           THEN {[name |-> t, id |-> id, currentMembers |-> 1, maxMembers |-> maxMembers]}
           ELSE {}
  /\ \A w \in HandlerResults : \A id \in LobbyIds :
       (items[id] # 0 /\ w.items[id] = 0) => \A e \in getAllPublicLobbies(w) : e.id # id

\* A private lobby with two members and a public lobby are registered: the
\* list has the public one only; closing the public lobby's host empties it.
C29_Witness ==
  \E pub \in LobbyIds, priv \in LobbyIds :
    /\ running /\ items[pub] # 0 /\ items[priv] # 0
    /\ lobbies[items[pub]].isPublic /\ ~lobbies[items[priv]].isPublic
    /\ numMembers(lobbies[items[priv]]) = 2
    /\ Cardinality(getAllPublicLobbies(World)) = 1
    /\ lobbies[items[pub]].host.c \in Open
    /\ getAllPublicLobbies(onClose(World, lobbies[items[pub]].host.c)) = {}

\* ------------------------------------------------------------------- C30
\* C30: after any handler run, a mediator that has been cleaned up (by
\* success, by an abort on a deadline or a membership change, by the removal
\* of its lobby or by shutdown) has no timer armed: neither its reminder
\* interval, nor its capture deadline, nor any peer-connect deadline it armed.
C30_CleanupCancelsAllTimers ==
  \A w \in EveryHandlerResult :
    \A l \in 1..Len(w.meds) : \A k \in 1..Len(w.meds[l]) :
      w.meds[l][k].phase = "Ended" => ~Armed(w.meds[l][k])

\* ------------------------------------------------------------------- C31
\* C31: a mediator in phase Connecting has neither its reminder interval nor
\* its capture deadline armed.
C31_ConnectingHasOnlyPeerConnectDeadline ==
  \A l \in 1..Len(meds) : \A k \in 1..Len(meds[l]) :
    meds[l][k].phase = "Connecting" =>
      ~meds[l][k].interval /\ ~meds[l][k].connectTimeout

\* ------------------------------------------------------------------- C32
\* C32: a ptpMediation_peersConnection_success frame that reaches a mediator
\* in phase Capturing writes no ptpMediation_success frame and leaves the
\* lobby registered.
C32_AcksWhileCapturingDoNotComplete ==
  \A t \in Open :
    (InMediation(t) /\ MediatorOf(t).phase = "Capturing") =>
      LET w == handleConnectedToPeers(World, t) IN
      /\ \A i \in 1..Len(w.out) : w.out[i].method # "ptpMediation_success"
      /\ w.items[LobbyIdOf(t)] = items[LobbyIdOf(t)]

\* ------------------------------------------------------------------- C33
\* A mediator of Lobby object l is acting on it: one of its timers is armed, or
\* its handleLobbyMemberChange is subscribed to the lobby's member events
\* (every mediator that was started subscribed and none unsubscribes).
ActingMediator(l) ==
  \E k \in 1..Len(meds[l]) : Armed(meds[l][k]) \/ meds[l][k].phase # "New"

\* C33: for every registered lobby the three are equivalent: the lobby is
\* locked; the registry holds a mediator under the lobby's id; a mediator with
\* an armed timer or a membership subscription is acting on the lobby.
C33_LockedIffMediatorIffActing ==
  \A id \in LobbyIds :
    items[id] # 0 =>
      /\ lobbies[items[id]].locked <=> lobbyIdToPtpMediator[id] # NoMed
      /\ lobbyIdToPtpMediator[id] # NoMed <=> ActingMediator(items[id])

\* ------------------------------------------------------------------- C34
\* C34: a handler run writes a ptpMediation_aborted frame on behalf of a lobby
\* only if the registry held a mediator of that lobby when the run began, and
\* it writes at most one such frame to each socket.
C34_AbortedOnlyFromLiveMediator ==
  \A w \in EveryHandlerResult :
    /\ \A i \in 1..Len(w.out) :
         w.out[i].method = "ptpMediation_aborted" =>
           \E id \in LobbyIds : lobbyIdToPtpMediator[id][1] = w.out[i].lobj
    /\ \A c \in Clients : NumFrames(w.out, c, "ptpMediation_aborted") <= 1

\* ------------------------------------------------------------------- C35
\* The tokens for which mediator m holds an observation.
ObservedTokens(m) == {c \in Clients : m.details[c] # <<>>}

\* C35: the tokens observed by a mediator the registry holds are tokens of
\* current members of the mediator's lobby; and a handler run that leaves the
\* mediator registered and the lobby's members as they were loses none of the
\* mediator's observed tokens.
C35_ObservedAreMembersAndGrow ==
  \A id \in LobbyIds :
    lobbyIdToPtpMediator[id] # NoMed =>
      LET l == lobbyIdToPtpMediator[id][1]
          k == lobbyIdToPtpMediator[id][2]
      IN /\ ObservedTokens(meds[l][k]) \subseteq MemberSet(lobbies[l])
         /\ \A w \in EveryHandlerResult :
              (w.id2med[id] = <<l, k>> /\ w.lobbies[l].members = lobbies[l].members) =>
                ObservedTokens(meds[l][k]) \subseteq ObservedTokens(w.meds[l][k])

\* ------------------------------------------------------------------- C36
\* C36: while the server listens, a datagram that decodes and is rejected by
\* its method or by the payload schema changes nothing and writes no frame;
\* and no datagram ends the datagram loop: the loop is never left by an
\* exception.
C36_BadDatagramDroppedLoopGoesOn ==
  /\ (running /\ udpServer = "listening") =>
       \A p \in BadPackets, hostname \in Hosts, port \in Ports :
         ~decodePacket(p).threw => handle(World, p, hostname, port) = World
  /\ udpServer # "failed"

\* ------------------------------------------------------------------- C37
\* The text of a well-formed ptpMediation_connect datagram carrying token t.
ConnectPacket(t) ==
  [method |-> "ptpMediation_connect", payload |-> [kind |-> "object", token |-> t]]

\* Token t resolves to no registered session, or no registered lobby that
\* lists t as a member has a live mediator in the registry (which covers a
\* session that is in no lobby).
NoLiveMediatorFor(t) ==
  \/ getByToken(t) = 0
  \/ \A id \in LobbyIds :
       (items[id] # 0 /\ isMember(lobbies[items[id]], t)) =>
         ~\E k \in LiveMediators(World, items[id]) : lobbyIdToPtpMediator[id] = <<items[id], k>>

\* C37: while the server listens, a ptpMediation_connect datagram whose token
\* resolves to no session, or whose session is a member of no lobby, or whose
\* lobby has no live mediator, leaves every lobby, mediator and index as it
\* was and writes no frame.
C37_ConnectWithoutMediatorDropped ==
  (running /\ udpServer = "listening") =>
    \A t \in Clients, hostname \in Hosts, port \in Ports :
      NoLiveMediatorFor(t) => handle(World, ConnectPacket(t), hostname, port) = World

\* ------------------------------------------------------------------- C38
\* C38: every member of every registered lobby is a registered session with
\* an open socket; and a session whose socket has closed is a member of no
\* registered lobby and has no entry in the token-to-lobby index.
C38_MembersAreLiveSessions ==
  /\ \A id \in LobbyIds :
       items[id] # 0 =>
         \A c \in MemberSet(lobbies[items[id]]) : getByToken(c) # 0 /\ sockets[c] = "open"
  /\ \A c \in Clients :
       sockets[c] = "closed" =>
         /\ networkClientToLobbyMapping[c] = 0
         /\ \A id \in LobbyIds : items[id] # 0 => ~isMember(lobbies[items[id]], c)

\* ------------------------------------------------------------------- C39
\* The Lobby objects that list session t as a member.
LobbiesOf(t) == {l \in 1..Len(lobbies) : isMember(lobbies[l], t)}

\* The Lobby object registered under id, if any.
LobbyAt(id) == IF items[id] # 0 THEN {items[id]} ELSE {}

\* The run that produced w concerned the Lobby objects in L only: every other
\* Lobby object and its mediators are as they were, and every frame the run
\* wrote went to a session that was or has become a member of a lobby in L.
Isolated(w, L) ==
  /\ \A l \in (1..Len(lobbies)) \ L : w.lobbies[l] = lobbies[l] /\ w.meds[l] = meds[l]
  /\ \A i \in 1..Len(w.out) :
       \E l \in L : w.out[i].to \in MemberSet(lobbies[l]) \cup MemberSet(w.lobbies[l])

\* C39: a datagram or an acknowledgement of a session, a chat message to a
\* lobby, a join, a session's closing and a timer's firing change no Lobby
\* object and no mediator other than those of the lobby the event concerns,
\* and write frames to members of that lobby only.
C39_LobbiesIsolated ==
  /\ \A t \in Clients, hostname \in Hosts, port \in Ports :
       Isolated(onDatagram(World, t, hostname, port), LobbiesOf(t))
  /\ \A t \in Clients : Isolated(handleConnectedToPeers(World, t), LobbiesOf(t))
  /\ \A t \in Clients, id \in LobbyIds, message \in Messages :
       Isolated(handleLobbyMessage(World, t, id, message), LobbyAt(id))
  /\ \A t \in Clients, id \in LobbyIds, peerName \in Names :
       joinLobbyStatus(World, t, id, peerName) = 200 =>
         Isolated(addMemberToLobby(World, id, t, peerName), LobbyAt(id))
  /\ \A c \in Open : Isolated(onClose(World, c), LobbiesOf(c))
  /\ \A lk \in MedRefs :
       /\ meds[lk[1]][lk[2]].interval => Isolated(onInterval(World, lk[1], lk[2]), {lk[1]})
       /\ meds[lk[1]][lk[2]].connectTimeout =>
            Isolated(onConnectTimeout(World, lk[1], lk[2]), {lk[1]})
       /\ meds[lk[1]][lk[2]].ptpConnectTimeout =>
            Isolated(onPtpConnectTimeout(World, lk[1], lk[2]), {lk[1]})
       /\ meds[lk[1]][lk[2]].leaked > 0 =>
            Isolated(onLeakedPtpConnectTimeout(World, lk[1], lk[2]), {lk[1]})

\* ------------------------------------------------------------------- C40
\* The registry holds Lobby object l under id together with a live mediator
\* of l.
Mediating(id, l) ==
  /\ l <= Len(lobbies) /\ items[id] = l
  /\ lobbyIdToPtpMediator[id][1] = l
  /\ lobbyIdToPtpMediator[id][2] \in LiveMediators(World, l)

\* Lobby object l is no longer registered under id, or it is unlocked and the
\* registry holds no mediator under id.
MediationOver(id, l) ==
  \/ items[id] # l
  \/ l <= Len(lobbies) /\ ~lobbies[l].locked /\ lobbyIdToPtpMediator[id] = NoMed

\* C40: when armed deadlines fire, every state in which a registered lobby has
\* a live mediator is followed by a state in which that lobby is gone from
\* the registry or is unlocked with no mediator, whether or not any datagram
\* or acknowledgement arrives.
C40_EveryMediationEnds ==
  \A id \in LobbyIds, l \in 1..MaxLobbies : Mediating(id, l) ~> MediationOver(id, l)

\* A registered lobby is locked and its live mediator has received nothing:
\* no observation and no acknowledgement.
C40_Witness ==
  \E id \in LobbyIds, l \in 1..MaxLobbies :
    /\ Mediating(id, l) /\ lobbies[l].locked
    /\ LET m == meds[l][lobbyIdToPtpMediator[id][2]]
       IN ObservedTokens(m) = {} /\ m.phase = "Capturing"

====
